---- MODULE Spec2Model ----
(***************************************************************************)
(* Motion camera: sampling synchronizer, motion detector / recording       *)
(* coordinator, segmented video writer and the application shell's         *)
(* start/stop control.                                                     *)
(*                                                                         *)
(* Time is a discrete clock `now` counted in clock units; a second is      *)
(* UnitsPerSecond units.  time.time() reads `now`; time.sleep(d) blocks    *)
(* the calling thread until the clock has advanced by d.  Threads are      *)
(* interleaved freely, and the clock may advance between any two steps.    *)
(***************************************************************************)
EXTENDS Integers, Sequences, FiniteSets, TLC

\* ---------------------------------------------------------------- bounds
\* Clock units in one second (resolution of the model clock).
UnitsPerSecond == 6
\* The clock stops advancing here.
MaxTime == 6
\* options.motion_interval, in clock units.
MotionInterval == 1
\* options.max_duration, in clock units.
MaxDuration == 3
\* Number of recording threads that may be spawned in one behaviour.
MaxTasks == 2
\* Number of capture threads that may be spawned in one behaviour.
MaxCaptures == 1
\* Number of control-surface requests in one behaviour.
MaxRequests == 1
\* Most clock units by which a running loop iteration may overrun its tick.
MaxOverrun == 1
\* Clock horizon and largest first tick of the synchronizer-only specification.
MaxSyncTime == 12
\* Clock horizon of the specification with punctual threads.
MaxNominalTime == 9
\* A second configuration of that specification: a hold interval that outlasts
\* the comparison period, and a longer segment cap, in clock units.
NominalMotionInterval == 5
NominalMaxDuration == 7
\* Clock horizon of the specification with the live stream, and the number of
\* control-surface requests and signals in one behaviour of it.
MaxFeedTime == 3
MaxFeedRequests == 2
\* Number of live-stream generators that may be created in one behaviour.
MaxFeeds == 2
\* Largest number of pixels of a frame given to the motion score.
MaxPixels == 2
\* Clock horizon of the specification with capture restarts, and the numbers of
\* requests and of capture threads in one behaviour of it.
MaxRestartTime == 3
MaxRestartRequests == 2
MaxRestartCaptures == 2
\* Largest width and height of a sensor mode and of a requested frame size, and
\* the largest number of sensor modes of a camera.
MaxSide == 3
MaxModes == 2

\* ------------------------------------------------------- program constants
FRAME_SKIPS == 5
MseThreshold == 15

\* "absent" (Python None) for times, handles and thread references.
None == -1
\* "absent" (Python None) for frames.
NoFrame == <<>>

Tasks == 1..MaxTasks
Captures == 1..MaxRestartCaptures
Feeds == 1..MaxFeeds
\* The values of a pixel of an 8-bit grayscale frame.
PixelValues == 0..(2^8 - 1)
\* Sampling rates (Hz) whose interval is a whole number of clock units.
Rates == {r \in 1..UnitsPerSecond : UnitsPerSecond % r = 0}
\* options.rate of the application.
AppRate == UnitsPerSecond
\* Frames the camera may deliver: one gray pixel each.
Frames == {<<0>>, <<4>>, <<8>>}

VARIABLES
    now,                \* the wall clock, time.time()
    sampling_rate,      \* Synchronizer.sampling_rate
    sampling_interval,  \* Synchronizer.sampling_interval
    \* --- synchronizer-only specification: one caller threading its tick
    previous_tick,      \* the caller's start_time (None on the first call)
    last_call,          \* record of the latest wait_for_next_sampling call
    grid_origin,        \* the first tick of the caller's present loop
    \* --- MotionHandler
    motion_interval,    \* MotionHandler.motion_interval (options.motion_interval)
    storage_enabled,
    start_video_thread,
    mh_terminate,       \* MotionHandler.terminate
    motion_detected,
    last_motion_time,
    mh_frame_count,     \* MotionHandler.frame_count
    reference_frame,
    \* --- VideoRecorder
    max_segment_duration, \* VideoRecorder.max_segment_duration (options.max_duration)
    recording_active,
    out,                \* the output handle (None, or the id of its opener)
    start_time,         \* VideoRecorder.start_time
    vr_frame_count,     \* VideoRecorder.frame_count
    frame_start_time,   \* VideoRecorder.frame_start_time
    unreleased,         \* output sink: handles opened and not yet released
    \* --- threads
    cap_pc,             \* capture thread c: "none","begin","loop","sync","wait","done","failed"
    cap_start_time,     \* capture thread c: local start_time
    rec_pc,             \* recording thread t: "none","start","check","write","sleep","stop","done",
                        \* "failed" (no file), "crashed" (write error)
    rec_wake,           \* recording thread t: tick it sleeps until
    \* --- MotionCameraApp and LiveFeedHandler
    detect_thread,
    app_pc,             \* "idle", or "joining" inside stop_capture
    requests,           \* control-surface requests issued so far
    lf_terminate,       \* LiveFeedHandler.terminate
    request_budget,     \* requests and signals the behaviour may make in all
    capture_limit,      \* capture threads the behaviour may start in all
    main_pc,            \* main thread: "running","exiting","joining","exited"
    top_terminate,      \* the application's own termination switch
    \* --- live-stream generators
    lf_pc,              \* generator f: "none","begin","poll","encode","sync","wait","final","done"
    lf_start_time,      \* generator f: local start_time
    lf_images,          \* generator f: image chunks it has yielded
    lf_terminals,       \* generator f: terminal text chunks it has yielded
    lf_error,           \* generator f: its terminal chunk carries an error text
    \* --- one mean_squared_error call
    score_call,         \* its two frames and, once made, its result
    \* --- CameraHandler
    camera_call,        \* one construction: its sensor modes and frame size and, once
                        \* made, its outcome
    frame_alert,        \* CameraHandler.frame carries the motion alert (its pixels are
                        \* not kept)
    \* --- history
    expired,            \* task t: the hold condition has held at some instant of its session
    observed,           \* task t: its stop check has observed the hold condition
    rec_frames,         \* task t: frames it has written
    stop_calls,         \* task t: stop_recording calls it has made
    segment_started,    \* the instant of the latest start_recording that opened a segment
    first_frame_time,   \* the instant of the first write of that segment
    lf_signal           \* generator f: "unset"; "set" once the flag it had not yet polled
                        \* was cleared again; "ignored" once it has polled after that

sync_vars == <<previous_tick, last_call, grid_origin>>
config_vars == <<motion_interval, max_segment_duration, request_budget, capture_limit>>
main_vars == <<main_pc, top_terminate>>
feed_vars == <<lf_pc, lf_start_time, lf_images, lf_terminals, lf_error, lf_signal>>
score_vars == <<score_call>>
camera_vars == <<camera_call, frame_alert>>
\* What the capture, recording and control steps never touch.
rest_vars == <<main_vars, feed_vars, score_vars, camera_vars>>
clock_vars == <<now, sampling_rate, sampling_interval>>
motion_vars == <<storage_enabled, start_video_thread, mh_terminate, motion_detected,
                 last_motion_time, mh_frame_count, reference_frame>>
recorder_vars == <<recording_active, out, start_time, vr_frame_count, frame_start_time,
                   unreleased>>
thread_vars == <<cap_pc, cap_start_time, rec_pc, rec_wake>>
app_vars == <<detect_thread, app_pc, requests, lf_terminate>>
history_vars == <<expired, observed, rec_frames, stop_calls, segment_started,
                  first_frame_time>>

vars == <<clock_vars, config_vars, rest_vars, sync_vars, motion_vars, recorder_vars,
          thread_vars, app_vars, history_vars>>

\* ------------------------------------------------------------ Synchronizer

\* Python int(a / b) for b > 0: truncation towards zero.
int_div(a, b) == IF a >= 0 THEN a \div b ELSE -((-a) \div b)

\* Synchronizer.set_rate: the rate and the interval 1 / rate (in clock units).
set_rate(rate) == [sampling_rate |-> rate, sampling_interval |-> UnitsPerSecond \div rate]

\* Mutants of wait_for_next_sampling.
wait_for_next_sampling_no_skip(tick_in, time_now, interval) ==
    IF tick_in = None THEN [tick |-> time_now, sleep |-> 0]
    ELSE IF interval - (time_now - tick_in) > 0
         THEN [tick |-> tick_in + interval, sleep |-> interval - (time_now - tick_in)]
         ELSE [tick |-> tick_in + interval, sleep |-> 0]

wait_for_next_sampling_floor_only(tick_in, time_now, interval) ==
    IF tick_in = None THEN [tick |-> time_now, sleep |-> 0]
    ELSE IF interval - (time_now - tick_in) > 0
         THEN [tick |-> tick_in + interval, sleep |-> interval - (time_now - tick_in)]
         ELSE [tick |-> tick_in
                          + int_div(-(interval - (time_now - tick_in)), interval) * interval,
               sleep |-> 0]

wait_for_next_sampling_full_sleep(tick_in, time_now, interval) ==
    IF tick_in = None THEN [tick |-> time_now, sleep |-> 0]
    ELSE IF interval - (time_now - tick_in) > 0
         THEN [tick |-> tick_in + interval, sleep |-> interval]
         ELSE [tick |-> tick_in
                          + (int_div(-(interval - (time_now - tick_in)), interval) + 1) * interval,
               sleep |-> 0]

wait_for_next_sampling_first_waits(tick_in, time_now, interval) ==
    IF tick_in = None THEN [tick |-> time_now + interval, sleep |-> interval]
    ELSE IF interval - (time_now - tick_in) > 0
         THEN [tick |-> tick_in + interval, sleep |-> interval - (time_now - tick_in)]
         ELSE [tick |-> tick_in
                          + (int_div(-(interval - (time_now - tick_in)), interval) + 1) * interval,
               sleep |-> 0]

\* Mutant of wait_for_next_sampling: after an overrun the caller is put on the
\* current time.
wait_for_next_sampling_resyncs(tick_in, time_now, interval) ==
    IF tick_in = None
    THEN [tick |-> time_now, sleep |-> 0]
    ELSE IF interval - (time_now - tick_in) > 0
         THEN [tick |-> tick_in + interval, sleep |-> interval - (time_now - tick_in)]
         ELSE [tick |-> time_now, sleep |-> 0]

\* Synchronizer.wait_for_next_sampling(start_time) called at time_now.
\* tick: the value it returns; sleep: the argument of time.sleep (0: not called).
wait_for_next_sampling(tick_in, time_now, interval) ==
    IF tick_in = None
    THEN [tick |-> time_now, sleep |-> 0]
    ELSE LET elapsed_time == time_now - tick_in
             time_to_wait == interval - elapsed_time
         IN  IF time_to_wait > 0
             THEN [tick |-> tick_in + interval, sleep |-> time_to_wait]
             ELSE LET multiplier == int_div(-time_to_wait, interval) + 1
                  IN  [tick |-> tick_in + multiplier * interval, sleep |-> 0]

NoCall == [start_time |-> None, at |-> None, tick |-> None, sleep |-> 0, absent |-> FALSE]

\* ------------------------------------------------------------ VideoRecorder

\* Mutant of is_segment_duration_exceeded: the recording_active guard is inverted.
is_segment_duration_exceeded_inverted_guard(active, started, time_now) ==
    IF active \/ started = None
    THEN FALSE
    ELSE time_now - started > max_segment_duration

\* Mutant of is_segment_duration_exceeded: the recording_active guard is lost.
is_segment_duration_exceeded_unguarded(active, started, time_now) ==
    IF started = None THEN FALSE ELSE time_now - started > max_segment_duration

\* VideoRecorder.is_segment_duration_exceeded called at time_now.
is_segment_duration_exceeded(active, started, time_now) ==
    IF ~active \/ started = None
    THEN FALSE
    ELSE time_now - started > max_segment_duration

\* ------------------------------------------------------------ MotionHandler

\* cv2.subtract on 8-bit frames: per-pixel difference, saturated at 0.
cv2_subtract(frame1, frame2) ==
    [i \in 1..Len(frame1) |-> IF frame1[i] >= frame2[i] THEN frame1[i] - frame2[i] ELSE 0]

RECURSIVE numpy_sum(_)
numpy_sum(values) ==
    IF values = <<>> THEN 0 ELSE Head(values) + numpy_sum(Tail(values))

\* numpy.sum(diff ** 2): the squares are 8-bit (they wrap), the sum is wide.
sum_of_squares(diff) == numpy_sum([i \in 1..Len(diff) |-> (diff[i] * diff[i]) % 256])

\* MotionHandler.mean_squared_error: the score is err / frame_size.
mean_squared_error(frame1, frame2) ==
    [err |-> sum_of_squares(cv2_subtract(frame1, frame2)), frame_size |-> Len(frame1)]

\* No mean_squared_error call under observation.
NoScore == [frame1 |-> NoFrame, frame2 |-> NoFrame, called |-> FALSE, err |-> 0,
            frame_size |-> 0]

\* ------------------------------------------------------ CameraHandler
\* A size is a pair <<width, height>>; Sizes are those of the sensor modes and of
\* the requested frame.
Sizes == (1..MaxSide) \X (1..MaxSide)

\* No full size chosen (Python's None).
NoSize == <<>>

\* The sort key of a sensor mode: the area of its size.
mode_area(size) == size[1] * size[2]

\* list.insert into a list sorted by area, behind the modes of the same area.
RECURSIVE insert_mode(_, _)
insert_mode(sorted, size) ==
    IF sorted = <<>> THEN <<size>>
    ELSE IF mode_area(size) < mode_area(Head(sorted))
         THEN <<size>> \o sorted
         ELSE <<Head(sorted)>> \o insert_mode(Tail(sorted), size)

\* sorted(camera_modes, key = area): ascending and stable.
RECURSIVE sorted_modes(_)
sorted_modes(camera_modes) ==
    IF camera_modes = <<>> THEN <<>>
    ELSE insert_mode(sorted_modes(SubSeq(camera_modes, 1, Len(camera_modes) - 1)),
                     camera_modes[Len(camera_modes)])

\* Python's >= on two pairs: the first components decide unless they are equal.
tuple_ge(size, frame_size) ==
    \/ size[1] > frame_size[1]
    \/ size[1] = frame_size[1] /\ size[2] >= frame_size[2]

\* The loop over the sorted modes: the first one that compares >= to the requested
\* frame size, NoSize when the loop ends without one.
RECURSIVE first_mode(_, _)
first_mode(modes, frame_size) ==
    IF modes = <<>> THEN NoSize
    ELSE IF tuple_ge(Head(modes), frame_size) THEN Head(modes)
         ELSE first_mode(Tail(modes), frame_size)

\* CameraHandler.__init__ from the sensor modes on: the full size it keeps, whether
\* it raised SystemExit, whether it started the camera.
camera_handler_init(camera_modes, frame_size) ==
    LET full_size == first_mode(sorted_modes(camera_modes), frame_size) IN
    [full_size |-> full_size, exited |-> full_size = NoSize, started |-> full_size # NoSize]

\* No construction under observation.
NoCamera == [modes |-> <<>>, frame_size |-> NoSize, called |-> FALSE, full_size |-> NoSize,
             exited |-> FALSE, started |-> FALSE]

\* Mutant of detect_motion: a missing predecessor counts as motion.
detect_motion_scores_first_frame(frame1_gray, frame2_gray, flag) ==
    IF frame1_gray = NoFrame \/ frame2_gray = NoFrame
    THEN TRUE
    ELSE sum_of_squares(cv2_subtract(frame1_gray, frame2_gray))
            >= MseThreshold * Len(frame1_gray)

\* MotionHandler.detect_motion: the new motion_detected flag.
\* error >= threshold, with error = err / frame_size, is err >= threshold * frame_size.
detect_motion(frame1_gray, frame2_gray, flag) ==
    IF frame1_gray = NoFrame \/ frame2_gray = NoFrame
    THEN flag
    ELSE sum_of_squares(cv2_subtract(frame1_gray, frame2_gray))
            >= MseThreshold * Len(frame1_gray)

\* Mutants of recording_should_stop.
recording_should_stop_no_hold(time_now, last_motion, terminate, exceeded) ==
    terminate \/ exceeded

recording_should_stop_no_terminate(time_now, last_motion, terminate, exceeded) ==
    time_now - last_motion > motion_interval \/ exceeded

recording_should_stop_twice_hold(time_now, last_motion, terminate, exceeded) ==
    \/ time_now - last_motion > 2 * motion_interval
    \/ terminate
    \/ exceeded

recording_should_stop_any_terminate(time_now, last_motion, terminate, exceeded) ==
    \/ time_now - last_motion > motion_interval
    \/ terminate
    \/ lf_terminate
    \/ exceeded

recording_should_stop_when_disabled(time_now, last_motion, terminate, exceeded) ==
    \/ time_now - last_motion > motion_interval
    \/ terminate
    \/ exceeded
    \/ ~storage_enabled

\* MotionHandler.recording_should_stop called at time_now.
recording_should_stop(time_now, last_motion, terminate, exceeded) ==
    \/ time_now - last_motion > motion_interval
    \/ terminate
    \/ exceeded

\* The smallest unused thread slot.
FreeSlot(pc, slots) == CHOOSE s \in slots : pc[s] = "none" /\ \A u \in slots : pc[u] = "none" => s <= u

\* A recording thread that has started its session and not finished stop_recording.
InSession(t) == rec_pc[t] \in {"check", "write", "sleep", "stop"}

\* The hold condition of the stop policy at the current instant.
HoldExpired == last_motion_time # None /\ now - last_motion_time > motion_interval

\* ------------------------------------------------------------------- Init

InitClock ==
    /\ now = 0
    /\ sampling_rate = set_rate(AppRate).sampling_rate
    /\ sampling_interval = set_rate(AppRate).sampling_interval

InitSyncIdle ==
    /\ previous_tick = None
    /\ last_call = NoCall
    /\ grid_origin = None

\* The options the components are constructed with.
InitConfig ==
    /\ motion_interval = MotionInterval
    /\ max_segment_duration = MaxDuration
    /\ request_budget = MaxRequests
    /\ capture_limit = MaxCaptures

\* The state the constructors leave.
InitApp ==
    /\ storage_enabled = FALSE
    /\ start_video_thread = None
    /\ mh_terminate = FALSE
    /\ motion_detected = FALSE
    /\ last_motion_time = None
    /\ mh_frame_count = 0
    /\ reference_frame = NoFrame
    /\ recording_active = FALSE
    /\ out = None
    /\ start_time = None
    /\ vr_frame_count = 0
    /\ frame_start_time = None
    /\ unreleased = {}
    /\ cap_pc = [c \in Captures |-> "none"]
    /\ cap_start_time = [c \in Captures |-> None]
    /\ rec_pc = [t \in Tasks |-> "none"]
    /\ rec_wake = [t \in Tasks |-> None]
    /\ detect_thread = None
    /\ app_pc = "idle"
    /\ requests = 0
    /\ lf_terminate = FALSE
    /\ expired = [t \in Tasks |-> FALSE]
    /\ observed = [t \in Tasks |-> FALSE]
    /\ rec_frames = [t \in Tasks |-> 0]
    /\ stop_calls = [t \in Tasks |-> 0]
    /\ segment_started = None
    /\ first_frame_time = None

\* The application some time after run() has started capture and enabled storage,
\* when the comparison of the previous iteration has detected the first motion:
\* the capture thread is back at its loop test, on its tick, and the motion is
\* still to be handled.  The clock's epoch is arbitrary: it is set to this instant.
InitRunning ==
    /\ storage_enabled = TRUE
    /\ start_video_thread = None
    /\ mh_terminate = FALSE
    /\ motion_detected = TRUE
    /\ last_motion_time = None
    /\ mh_frame_count = 0
    /\ reference_frame \in {<<0>>, <<4>>}
    /\ recording_active = FALSE
    /\ out = None
    /\ start_time = None
    /\ vr_frame_count = 0
    /\ frame_start_time = None
    /\ unreleased = {}
    /\ cap_pc = [c \in Captures |-> IF c = 1 THEN "loop" ELSE "none"]
    /\ cap_start_time = [c \in Captures |-> IF c = 1 THEN now ELSE None]
    /\ rec_pc = [t \in Tasks |-> "none"]
    /\ rec_wake = [t \in Tasks |-> None]
    /\ detect_thread = 1
    /\ app_pc = "idle"
    /\ requests = 0
    /\ lf_terminate = FALSE
    /\ expired = [t \in Tasks |-> FALSE]
    /\ observed = [t \in Tasks |-> FALSE]
    /\ rec_frames = [t \in Tasks |-> 0]
    /\ stop_calls = [t \in Tasks |-> 0]
    /\ segment_started = None
    /\ first_frame_time = None

\* The main thread is inside run(); no signal has come.
InitMain ==
    /\ main_pc = "running"
    /\ top_terminate = FALSE

\* No live-stream request has been made.
InitFeedIdle ==
    /\ lf_pc = [f \in Feeds |-> "none"]
    /\ lf_start_time = [f \in Feeds |-> None]
    /\ lf_images = [f \in Feeds |-> 0]
    /\ lf_terminals = [f \in Feeds |-> 0]
    /\ lf_error = [f \in Feeds |-> FALSE]
    /\ lf_signal = [f \in Feeds |-> "unset"]

\* A live-stream request has been answered and its generator has just run up
\* to its loop.
InitViewing ==
    /\ lf_pc = [f \in Feeds |-> IF f = 1 THEN "poll" ELSE "none"]
    /\ lf_start_time = [f \in Feeds |-> IF f = 1 THEN now ELSE None]
    /\ lf_images = [f \in Feeds |-> 0]
    /\ lf_terminals = [f \in Feeds |-> 0]
    /\ lf_error = [f \in Feeds |-> FALSE]
    /\ lf_signal = [f \in Feeds |-> "unset"]

InitScoreIdle == score_call = NoScore

\* No construction under observation; no frame has been captured.
InitCameraIdle ==
    /\ camera_call = NoCamera
    /\ frame_alert = FALSE

Init ==
    /\ InitClock /\ InitSyncIdle /\ InitConfig
    /\ InitMain /\ InitFeedIdle /\ InitScoreIdle /\ InitCameraIdle
    /\ (InitApp \/ InitRunning)

\* ------------------------------------------------------------------ clock

\* A loop iteration in progress is late by less than the bound: a capture thread
\* measured from its tick, a recording thread from the tick of its last frame.
WithinOverrun ==
    /\ \A c \in Captures :
          cap_pc[c] \in {"loop", "sync"}
              => now - cap_start_time[c] < sampling_interval + MaxOverrun
    /\ \A t \in Tasks :
          (rec_pc[t] \in {"check", "write"} /\ frame_start_time # None)
              => now - frame_start_time < sampling_interval + MaxOverrun

\* One clock unit passes.
Tick ==
    /\ now < MaxTime
    /\ WithinOverrun
    /\ now' = now + 1
    /\ expired' = [t \in Tasks |->
                     expired[t] \/ (InSession(t) /\ last_motion_time # None
                                    /\ now + 1 - last_motion_time > motion_interval)]
    /\ UNCHANGED <<sampling_rate, sampling_interval, config_vars, rest_vars, sync_vars, motion_vars,
                   recorder_vars, thread_vars, app_vars, observed, rec_frames, stop_calls,
                   segment_started, first_frame_time>>

\* ------------------------------------------------------- MotionCameraApp

start_capture ==
    /\ app_pc = "idle"
    /\ main_pc = "running"
    /\ requests < request_budget
    /\ \E c \in 1..capture_limit : cap_pc[c] = "none"
    /\ LET c == FreeSlot(cap_pc, Captures) IN
        /\ mh_terminate' = FALSE
        /\ cap_pc' = [cap_pc EXCEPT ![c] = "begin"]
        /\ detect_thread' = c
    /\ requests' = requests + 1
    /\ UNCHANGED <<clock_vars, config_vars, rest_vars, sync_vars, storage_enabled, start_video_thread,
                   motion_detected, last_motion_time, mh_frame_count, reference_frame,
                   recorder_vars, cap_start_time, rec_pc, rec_wake, app_pc, lf_terminate,
                   history_vars>>

\* Mutant of stop_capture: the live stream's switch is set before the join.
stop_capture_ends_feed_first ==
    /\ app_pc = "idle"
    /\ main_pc = "running"
    /\ requests < request_budget
    /\ mh_terminate' = TRUE
    /\ lf_terminate' = TRUE
    /\ app_pc' = IF detect_thread # None THEN "joining" ELSE "idle"
    /\ requests' = requests + 1
    /\ UNCHANGED <<clock_vars, config_vars, rest_vars, sync_vars, storage_enabled, start_video_thread,
                   motion_detected, last_motion_time, mh_frame_count, reference_frame,
                   recorder_vars, thread_vars, detect_thread, history_vars>>

\* stop_capture up to the join (or to its return when there is no thread to join).
stop_capture ==
    /\ app_pc = "idle"
    /\ main_pc = "running"
    /\ requests < request_budget
    /\ mh_terminate' = TRUE
    /\ IF detect_thread # None
       THEN app_pc' = "joining" /\ UNCHANGED lf_terminate
       ELSE app_pc' = "idle" /\ lf_terminate' = TRUE
    /\ requests' = requests + 1
    /\ UNCHANGED <<clock_vars, config_vars, rest_vars, sync_vars, storage_enabled, start_video_thread,
                   motion_detected, last_motion_time, mh_frame_count, reference_frame,
                   recorder_vars, thread_vars, detect_thread, history_vars>>

\* Mutant of stop_capture_joined: the live stream's switch is left alone.
stop_capture_joined_keeps_live_feed ==
    /\ app_pc = "joining"
    /\ cap_pc[detect_thread] \in {"done", "failed"}
    /\ detect_thread' = None
    /\ app_pc' = "idle"
    /\ UNCHANGED <<clock_vars, config_vars, rest_vars, sync_vars, motion_vars, recorder_vars,
                   thread_vars, requests, lf_terminate, history_vars>>

\* stop_capture from the return of detect_thread.join() to its own return.
stop_capture_joined ==
    /\ app_pc = "joining"
    /\ cap_pc[detect_thread] \in {"done", "failed"}
    /\ detect_thread' = None
    /\ lf_terminate' = TRUE
    /\ app_pc' = "idle"
    /\ UNCHANGED <<clock_vars, config_vars, rest_vars, sync_vars, motion_vars, recorder_vars,
                   thread_vars, requests, history_vars>>

\* The step with which a stop_capture call returns.
StopCaptureReturns ==
    \/ app_pc = "joining" /\ app_pc' = "idle"
    \/ app_pc = "idle" /\ app_pc' = "idle" /\ requests' = requests + 1
       /\ mh_terminate' /\ detect_thread = None /\ lf_terminate'

enable_video_storage ==
    /\ app_pc = "idle"
    /\ main_pc = "running"
    /\ requests < request_budget
    /\ storage_enabled' = TRUE
    /\ requests' = requests + 1
    /\ UNCHANGED <<clock_vars, config_vars, rest_vars, sync_vars, start_video_thread, mh_terminate,
                   motion_detected, last_motion_time, mh_frame_count, reference_frame,
                   recorder_vars, thread_vars, detect_thread, app_pc, lf_terminate,
                   history_vars>>

disable_video_storage ==
    /\ app_pc = "idle"
    /\ main_pc = "running"
    /\ requests < request_budget
    /\ storage_enabled' = FALSE
    /\ requests' = requests + 1
    /\ UNCHANGED <<clock_vars, config_vars, rest_vars, sync_vars, start_video_thread, mh_terminate,
                   motion_detected, last_motion_time, mh_frame_count, reference_frame,
                   recorder_vars, thread_vars, detect_thread, app_pc, lf_terminate,
                   history_vars>>

\* The control surface's end-feed operation: it sets the live stream's own
\* termination switch and nothing else.
end_feed ==
    /\ app_pc = "idle"
    /\ main_pc = "running"
    /\ requests < request_budget
    /\ lf_terminate' = TRUE
    /\ requests' = requests + 1
    /\ UNCHANGED <<clock_vars, config_vars, rest_vars, sync_vars, motion_vars, recorder_vars,
                   thread_vars, detect_thread, app_pc, history_vars>>

\* A generator that has been created and has not ended.
Streaming(f) == lf_pc[f] \in {"begin", "poll", "encode", "sync", "wait"}

\* live_feed: the switch is cleared and a new generator is handed to the response.
live_feed ==
    /\ app_pc = "idle"
    /\ main_pc = "running"
    /\ requests < request_budget
    /\ \E f \in Feeds : lf_pc[f] = "none"
    /\ lf_terminate' = FALSE
    /\ lf_pc' = [lf_pc EXCEPT ![FreeSlot(lf_pc, Feeds)] = "begin"]
    /\ lf_signal' = [f \in Feeds |->
                       IF lf_terminate /\ Streaming(f) /\ lf_signal[f] = "unset"
                       THEN "set" ELSE lf_signal[f]]
    /\ requests' = requests + 1
    /\ UNCHANGED <<clock_vars, config_vars, main_vars, score_vars, camera_vars, sync_vars, motion_vars,
                   recorder_vars, thread_vars, detect_thread, app_pc, history_vars,
                   lf_start_time, lf_images, lf_terminals, lf_error>>

\* The signal handler, between two requests: it raises SystemExit in the main
\* thread, which leaves run().
terminate ==
    /\ main_pc = "running"
    /\ app_pc = "idle"
    /\ requests < request_budget
    /\ main_pc' = "exiting"
    /\ requests' = requests + 1
    /\ UNCHANGED <<clock_vars, config_vars, top_terminate, feed_vars, score_vars, camera_vars, sync_vars,
                   motion_vars, recorder_vars, thread_vars, detect_thread, app_pc,
                   lf_terminate, history_vars>>

\* __exit__: disable_video_storage, then stop_capture up to the join (or to its
\* return when there is no thread to join).
app_exit ==
    /\ main_pc = "exiting"
    /\ storage_enabled' = FALSE
    /\ mh_terminate' = TRUE
    /\ IF detect_thread # None
       THEN main_pc' = "joining" /\ UNCHANGED lf_terminate
       ELSE main_pc' = "exited" /\ lf_terminate' = TRUE
    /\ UNCHANGED <<clock_vars, config_vars, top_terminate, feed_vars, score_vars, camera_vars, sync_vars,
                   start_video_thread, motion_detected, last_motion_time, mh_frame_count,
                   reference_frame, recorder_vars, thread_vars, detect_thread, app_pc,
                   requests, history_vars>>

\* __exit__ from the return of detect_thread.join() to its own return.
app_exit_joined ==
    /\ main_pc = "joining"
    /\ cap_pc[detect_thread] \in {"done", "failed"}
    /\ detect_thread' = None
    /\ lf_terminate' = TRUE
    /\ main_pc' = "exited"
    /\ UNCHANGED <<clock_vars, config_vars, top_terminate, feed_vars, score_vars, camera_vars, sync_vars,
                   motion_vars, recorder_vars, thread_vars, app_pc, requests, history_vars>>

\* ------------------------------------------- MotionHandler: capture thread

\* Mutants of handle_motion: storage_enabled is not tested; the flag is not cleared.
handle_motion_ignores_storage(flag, last_motion, enabled, active, time_now) ==
    IF ~flag
    THEN [last_motion_time |-> last_motion, spawn |-> FALSE, motion_detected |-> flag,
          alert |-> FALSE]
    ELSE [last_motion_time |-> time_now, spawn |-> ~active, motion_detected |-> FALSE,
          alert |-> TRUE]

handle_motion_keeps_flag(flag, last_motion, enabled, active, time_now) ==
    IF ~flag
    THEN [last_motion_time |-> last_motion, spawn |-> FALSE, motion_detected |-> flag,
          alert |-> FALSE]
    ELSE [last_motion_time |-> time_now, spawn |-> enabled /\ ~active, motion_detected |-> flag,
          alert |-> TRUE]

\* Mutant of handle_motion: last_motion_time is stamped only when a recording
\* thread is spawned.
handle_motion_stamps_on_spawn(flag, last_motion, enabled, active, time_now) ==
    IF ~flag
    THEN [last_motion_time |-> last_motion, spawn |-> FALSE, motion_detected |-> flag,
          alert |-> FALSE]
    ELSE [last_motion_time |-> IF enabled /\ ~active THEN time_now ELSE last_motion,
          spawn |-> enabled /\ ~active,
          motion_detected |-> FALSE,
          alert |-> TRUE]

\* MotionHandler.handle_motion called at time_now: the new last_motion_time and
\* motion_detected, whether a recording thread is spawned, and whether the alert is
\* drawn on the current frame.
handle_motion(flag, last_motion, enabled, active, time_now) ==
    IF ~flag
    THEN [last_motion_time |-> last_motion, spawn |-> FALSE, motion_detected |-> flag,
          alert |-> FALSE]
    ELSE [last_motion_time |-> time_now,
          spawn |-> enabled /\ ~active,
          motion_detected |-> FALSE,
          alert |-> TRUE]

\* capture_camera_feed up to its loop: the thread's first step.
capture_camera_feed(c) ==
    /\ cap_pc[c] = "begin"
    /\ mh_frame_count' = 0
    /\ reference_frame' = NoFrame
    /\ cap_start_time' = [cap_start_time EXCEPT ![c] = now]
    /\ cap_pc' = [cap_pc EXCEPT ![c] = "loop"]
    /\ UNCHANGED <<clock_vars, config_vars, rest_vars, sync_vars, storage_enabled, start_video_thread,
                   mh_terminate, motion_detected, last_motion_time, recorder_vars, rec_pc,
                   rec_wake, app_vars, history_vars>>

\* The loop test finds terminate set: the capture thread ends.
capture_terminated(c) ==
    /\ cap_pc[c] = "loop"
    /\ mh_terminate
    /\ cap_pc' = [cap_pc EXCEPT ![c] = "done"]
    /\ UNCHANGED <<clock_vars, config_vars, rest_vars, sync_vars, motion_vars, recorder_vars,
                   cap_start_time, rec_pc, rec_wake, app_vars, history_vars>>

\* handle_frame when camera_handler.capture_frame raises: nothing catches the
\* exception, and the capture thread ends with it.
capture_frame_raises(c) ==
    /\ cap_pc[c] = "loop"
    /\ ~mh_terminate
    /\ cap_pc' = [cap_pc EXCEPT ![c] = "failed"]
    /\ UNCHANGED <<clock_vars, config_vars, rest_vars, sync_vars, motion_vars, recorder_vars,
                   cap_start_time, rec_pc, rec_wake, app_vars, history_vars>>

\* Mutant of handle_frame: every frame is compared and kept as the reference.
handle_frame_compares_every_call(c, captured) ==
    /\ cap_pc[c] = "loop"
    /\ ~mh_terminate
    /\ LET handled == handle_motion(motion_detected, last_motion_time, storage_enabled,
                                    recording_active, now)
           counted == mh_frame_count + 1
       IN
        /\ last_motion_time' = handled.last_motion_time
        /\ IF handled.spawn
           THEN /\ \E t \in Tasks : rec_pc[t] = "none"
                /\ start_video_thread' = FreeSlot(rec_pc, Tasks)
                /\ rec_pc' = [rec_pc EXCEPT ![FreeSlot(rec_pc, Tasks)] = "start"]
           ELSE UNCHANGED <<start_video_thread, rec_pc>>
        /\ motion_detected' = detect_motion(reference_frame, captured, handled.motion_detected)
        /\ reference_frame' = captured
        /\ mh_frame_count' = IF counted = FRAME_SKIPS THEN 0 ELSE counted
    /\ cap_pc' = [cap_pc EXCEPT ![c] = "sync"]
    /\ frame_alert' = handle_motion(motion_detected, last_motion_time, storage_enabled,
                                    recording_active, now).alert
    /\ UNCHANGED <<clock_vars, config_vars, main_vars, feed_vars, score_vars, camera_call,
                   sync_vars, storage_enabled, mh_terminate, recorder_vars, cap_start_time,
                   rec_wake, app_vars, history_vars>>

\* Mutant of handle_frame: the loop does not test terminate.
handle_frame_unpolled(c, captured) ==
    /\ cap_pc[c] = "loop"
    /\ LET handled == handle_motion(motion_detected, last_motion_time, storage_enabled,
                                    recording_active, now)
           counted == mh_frame_count + 1
       IN
        /\ last_motion_time' = handled.last_motion_time
        /\ IF handled.spawn
           THEN /\ \E t \in Tasks : rec_pc[t] = "none"
                /\ start_video_thread' = FreeSlot(rec_pc, Tasks)
                /\ rec_pc' = [rec_pc EXCEPT ![FreeSlot(rec_pc, Tasks)] = "start"]
           ELSE UNCHANGED <<start_video_thread, rec_pc>>
        /\ IF counted = FRAME_SKIPS
           THEN /\ motion_detected' = detect_motion(reference_frame, captured,
                                                    handled.motion_detected)
                /\ reference_frame' = captured
                /\ mh_frame_count' = 0
           ELSE /\ motion_detected' = handled.motion_detected
                /\ mh_frame_count' = counted
                /\ UNCHANGED reference_frame
    /\ cap_pc' = [cap_pc EXCEPT ![c] = "sync"]
    /\ frame_alert' = handle_motion(motion_detected, last_motion_time, storage_enabled,
                                    recording_active, now).alert
    /\ UNCHANGED <<clock_vars, config_vars, main_vars, feed_vars, score_vars, camera_call,
                   sync_vars, storage_enabled, mh_terminate, recorder_vars, cap_start_time,
                   rec_wake, app_vars, history_vars>>

\* Mutant of handle_frame: the motion is handled after the comparison, in the call
\* that detects it.
handle_frame_handles_at_once(c, captured) ==
    /\ cap_pc[c] = "loop"
    /\ ~mh_terminate
    /\ LET counted == mh_frame_count + 1
           detected == IF counted = FRAME_SKIPS
                       THEN detect_motion(reference_frame, captured, motion_detected)
                       ELSE motion_detected
           handled == handle_motion(detected, last_motion_time, storage_enabled,
                                    recording_active, now)
       IN
        /\ last_motion_time' = handled.last_motion_time
        /\ IF handled.spawn
           THEN /\ \E t \in Tasks : rec_pc[t] = "none"
                /\ start_video_thread' = FreeSlot(rec_pc, Tasks)
                /\ rec_pc' = [rec_pc EXCEPT ![FreeSlot(rec_pc, Tasks)] = "start"]
           ELSE UNCHANGED <<start_video_thread, rec_pc>>
        /\ motion_detected' = handled.motion_detected
        /\ reference_frame' = IF counted = FRAME_SKIPS THEN captured ELSE reference_frame
        /\ mh_frame_count' = IF counted = FRAME_SKIPS THEN 0 ELSE counted
        /\ frame_alert' = handled.alert
    /\ cap_pc' = [cap_pc EXCEPT ![c] = "sync"]
    /\ UNCHANGED <<clock_vars, config_vars, main_vars, feed_vars, score_vars, camera_call,
                   sync_vars, storage_enabled, mh_terminate, recorder_vars, cap_start_time,
                   rec_wake, app_vars, history_vars>>

\* The loop test passes and handle_frame runs on the captured frame.
handle_frame(c, captured) ==
    /\ cap_pc[c] = "loop"
    /\ ~mh_terminate
    /\ LET handled == handle_motion(motion_detected, last_motion_time, storage_enabled,
                                    recording_active, now)
           counted == mh_frame_count + 1
       IN
        /\ last_motion_time' = handled.last_motion_time
        /\ IF handled.spawn
           THEN /\ \E t \in Tasks : rec_pc[t] = "none"
                /\ start_video_thread' = FreeSlot(rec_pc, Tasks)
                /\ rec_pc' = [rec_pc EXCEPT ![FreeSlot(rec_pc, Tasks)] = "start"]
           ELSE UNCHANGED <<start_video_thread, rec_pc>>
        /\ IF counted = FRAME_SKIPS
           THEN /\ motion_detected' = detect_motion(reference_frame, captured,
                                                    handled.motion_detected)
                /\ reference_frame' = captured
                /\ mh_frame_count' = 0
           ELSE /\ motion_detected' = handled.motion_detected
                /\ mh_frame_count' = counted
                /\ UNCHANGED reference_frame
    /\ cap_pc' = [cap_pc EXCEPT ![c] = "sync"]
    /\ frame_alert' = handle_motion(motion_detected, last_motion_time, storage_enabled,
                                    recording_active, now).alert
    /\ UNCHANGED <<clock_vars, config_vars, main_vars, feed_vars, score_vars, camera_call,
                   sync_vars, storage_enabled, mh_terminate, recorder_vars, cap_start_time,
                   rec_wake, app_vars, history_vars>>

\* The capture loop's wait_for_next_sampling call: it returns at once (first
\* call or overrun) or goes to sleep until the next tick.
capture_wait(c) ==
    /\ cap_pc[c] = "sync"
    /\ LET r == wait_for_next_sampling(cap_start_time[c], now, sampling_interval) IN
        /\ cap_start_time' = [cap_start_time EXCEPT ![c] = r.tick]
        /\ cap_pc' = [cap_pc EXCEPT ![c] = IF r.sleep > 0 THEN "wait" ELSE "loop"]
    /\ UNCHANGED <<clock_vars, config_vars, rest_vars, sync_vars, motion_vars, recorder_vars, rec_pc,
                   rec_wake, app_vars, history_vars>>

\* time.sleep returns once the tick the thread sleeps until has come.
capture_wake(c) ==
    /\ cap_pc[c] = "wait"
    /\ now >= cap_start_time[c]
    /\ cap_pc' = [cap_pc EXCEPT ![c] = "loop"]
    /\ UNCHANGED <<clock_vars, config_vars, rest_vars, sync_vars, motion_vars, recorder_vars,
                   cap_start_time, rec_pc, rec_wake, app_vars, history_vars>>

\* ----------------------------------------- MotionHandler: recording thread

\* Mutant of start_recording: cleanup() is not called.
start_recording_no_cleanup(t, opened) ==
    /\ rec_pc[t] = "start"
    /\ recording_active' = TRUE
    /\ IF opened
       THEN /\ out' = t
            /\ unreleased' = unreleased \cup {t}
            /\ start_time' = now
            /\ rec_pc' = [rec_pc EXCEPT ![t] = "check"]
            /\ expired' = [expired EXCEPT ![t] = HoldExpired]
            /\ segment_started' = now
            /\ first_frame_time' = None
            /\ UNCHANGED <<vr_frame_count, frame_start_time>>
       ELSE /\ rec_pc' = [rec_pc EXCEPT ![t] = "failed"]
            /\ UNCHANGED <<out, unreleased, vr_frame_count, frame_start_time, start_time,
                           expired, segment_started, first_frame_time>>
    /\ UNCHANGED <<clock_vars, config_vars, rest_vars, sync_vars, motion_vars, cap_pc, cap_start_time,
                   rec_wake, app_vars, observed, rec_frames, stop_calls>>

\* store_video's start_recording call; `opened` is whether the sink opens the file.
\* When it does not, create_video_file raises SystemExit and the thread ends.
start_recording(t, opened) ==
    /\ rec_pc[t] = "start"
    /\ recording_active' = TRUE
    /\ IF opened
       THEN /\ out' = t
            /\ unreleased' = unreleased \cup {t}
            /\ vr_frame_count' = 0
            /\ frame_start_time' = None
            /\ start_time' = now
            /\ rec_pc' = [rec_pc EXCEPT ![t] = "check"]
            /\ expired' = [expired EXCEPT ![t] = HoldExpired]
            /\ segment_started' = now
            /\ first_frame_time' = None
       ELSE /\ rec_pc' = [rec_pc EXCEPT ![t] = "failed"]
            /\ UNCHANGED <<out, unreleased, vr_frame_count, frame_start_time, start_time,
                           expired, segment_started, first_frame_time>>
    /\ UNCHANGED <<clock_vars, config_vars, rest_vars, sync_vars, motion_vars, cap_pc, cap_start_time,
                   rec_wake, app_vars, observed, rec_frames, stop_calls>>

\* store_video's loop test: one recording_should_stop call.
store_video(t) ==
    /\ rec_pc[t] = "check"
    /\ LET exceeded == is_segment_duration_exceeded(recording_active, start_time, now)
           stop == recording_should_stop(now, last_motion_time, mh_terminate, exceeded)
       IN  rec_pc' = [rec_pc EXCEPT ![t] = IF stop THEN "stop" ELSE "write"]
    /\ observed' = [observed EXCEPT ![t] = @ \/ HoldExpired]
    /\ UNCHANGED <<clock_vars, config_vars, rest_vars, sync_vars, motion_vars, recorder_vars, cap_pc,
                   cap_start_time, rec_wake, app_vars, expired, rec_frames, stop_calls,
                   segment_started, first_frame_time>>

\* write_frame is called: it paces, and when it need not sleep it writes at once.
write_frame(t) ==
    /\ rec_pc[t] = "write"
    /\ LET r == wait_for_next_sampling(frame_start_time, now, sampling_interval) IN
        IF r.sleep > 0
        THEN /\ rec_wake' = [rec_wake EXCEPT ![t] = r.tick]
             /\ rec_pc' = [rec_pc EXCEPT ![t] = "sleep"]
             /\ UNCHANGED <<frame_start_time, vr_frame_count, rec_frames, first_frame_time>>
        ELSE /\ frame_start_time' = r.tick
             /\ vr_frame_count' = vr_frame_count + 1
             /\ first_frame_time' = IF vr_frame_count = 0 THEN now ELSE first_frame_time
             /\ rec_frames' = [rec_frames EXCEPT ![t] = @ + 1]
             /\ rec_pc' = [rec_pc EXCEPT ![t] = "check"]
             /\ UNCHANGED rec_wake
    /\ UNCHANGED <<clock_vars, config_vars, rest_vars, sync_vars, motion_vars, recording_active, out,
                   start_time, unreleased, cap_pc, cap_start_time, app_vars, expired,
                   observed, stop_calls, segment_started>>

\* write_frame after its sleep: the tick is stored and the frame is written.
write_frame_wake(t) ==
    /\ rec_pc[t] = "sleep"
    /\ now >= rec_wake[t]
    /\ frame_start_time' = rec_wake[t]
    /\ vr_frame_count' = vr_frame_count + 1
    /\ first_frame_time' = IF vr_frame_count = 0 THEN now ELSE first_frame_time
    /\ rec_frames' = [rec_frames EXCEPT ![t] = @ + 1]
    /\ rec_wake' = [rec_wake EXCEPT ![t] = None]
    /\ rec_pc' = [rec_pc EXCEPT ![t] = "check"]
    /\ UNCHANGED <<clock_vars, config_vars, rest_vars, sync_vars, motion_vars, recording_active, out,
                   start_time, unreleased, cap_pc, cap_start_time, app_vars, expired,
                   observed, stop_calls, segment_started>>

\* Mutant of write_frame_raises: the error also ends the capture loop.
write_frame_raises_ends_capture(t) ==
    /\ \/ /\ rec_pc[t] = "write"
          /\ wait_for_next_sampling(frame_start_time, now, sampling_interval).sleep = 0
       \/ /\ rec_pc[t] = "sleep"
          /\ now >= rec_wake[t]
    /\ frame_start_time' =
          IF rec_pc[t] = "write"
          THEN wait_for_next_sampling(frame_start_time, now, sampling_interval).tick
          ELSE rec_wake[t]
    /\ rec_wake' = [rec_wake EXCEPT ![t] = None]
    /\ rec_pc' = [rec_pc EXCEPT ![t] = "crashed"]
    /\ mh_terminate' = TRUE
    /\ UNCHANGED <<clock_vars, config_vars, rest_vars, sync_vars, storage_enabled,
                   start_video_thread, motion_detected, last_motion_time, mh_frame_count,
                   reference_frame, recording_active, out, start_time, vr_frame_count,
                   unreleased, cap_pc, cap_start_time, app_vars, history_vars>>

\* write_frame when the sink's write raises, at once or after the sleep: the tick
\* is stored, no frame is counted, and nothing in store_video catches the
\* exception, so the thread ends without calling stop_recording.
write_frame_raises(t) ==
    /\ \/ /\ rec_pc[t] = "write"
          /\ wait_for_next_sampling(frame_start_time, now, sampling_interval).sleep = 0
       \/ /\ rec_pc[t] = "sleep"
          /\ now >= rec_wake[t]
    /\ frame_start_time' =
          IF rec_pc[t] = "write"
          THEN wait_for_next_sampling(frame_start_time, now, sampling_interval).tick
          ELSE rec_wake[t]
    /\ rec_wake' = [rec_wake EXCEPT ![t] = None]
    /\ rec_pc' = [rec_pc EXCEPT ![t] = "crashed"]
    /\ UNCHANGED <<clock_vars, config_vars, rest_vars, sync_vars, motion_vars,
                   recording_active, out, start_time, vr_frame_count, unreleased, cap_pc,
                   cap_start_time, app_vars, history_vars>>

\* The step in which thread t calls write_frame.
WriteFrameCalled(t) == rec_pc[t] = "write" /\ rec_pc'[t] # "write"

\* store_video's stop_recording call.
stop_recording(t) ==
    /\ rec_pc[t] = "stop"
    /\ unreleased' = IF out # None THEN unreleased \ {out} ELSE unreleased
    /\ recording_active' = FALSE
    /\ stop_calls' = [stop_calls EXCEPT ![t] = @ + 1]
    /\ rec_pc' = [rec_pc EXCEPT ![t] = "done"]
    /\ UNCHANGED <<clock_vars, config_vars, rest_vars, sync_vars, motion_vars, out, start_time,
                   vr_frame_count, frame_start_time, cap_pc, cap_start_time, rec_wake,
                   app_vars, expired, observed, rec_frames, segment_started, first_frame_time>>

\* ------------------------------------------- LiveFeedHandler: generators

\* Mutant of generate_feed: the tick of the generator before it is carried over.
generate_feed_carries_tick(f) ==
    /\ lf_pc[f] = "begin"
    /\ lf_start_time' = [lf_start_time EXCEPT ![f] =
                            IF f > 1 /\ lf_start_time[f - 1] # None
                            THEN lf_start_time[f - 1] ELSE now]
    /\ lf_pc' = [lf_pc EXCEPT ![f] = "poll"]
    /\ UNCHANGED <<clock_vars, config_vars, main_vars, score_vars, camera_vars, sync_vars, motion_vars,
                   recorder_vars, thread_vars, app_vars, history_vars, lf_images, lf_terminals, lf_error, lf_signal>>

\* generate_feed up to its loop, run by the first next(): start_time = time.time().
generate_feed(f) ==
    /\ lf_pc[f] = "begin"
    /\ lf_start_time' = [lf_start_time EXCEPT ![f] = now]
    /\ lf_pc' = [lf_pc EXCEPT ![f] = "poll"]
    /\ UNCHANGED <<clock_vars, config_vars, main_vars, score_vars, camera_vars, sync_vars, motion_vars,
                   recorder_vars, thread_vars, app_vars, history_vars, lf_images, lf_terminals, lf_error, lf_signal>>

\* The loop test, `while not self.terminate`.
generate_feed_poll(f) ==
    /\ lf_pc[f] = "poll"
    /\ lf_pc' = [lf_pc EXCEPT ![f] = IF lf_terminate THEN "final" ELSE "encode"]
    /\ lf_signal' = [lf_signal EXCEPT ![f] =
                        IF ~lf_terminate /\ @ = "set" THEN "ignored" ELSE @]
    /\ UNCHANGED <<clock_vars, config_vars, main_vars, score_vars, camera_vars, sync_vars, motion_vars,
                   recorder_vars, thread_vars, app_vars, history_vars, lf_start_time, lf_images, lf_terminals, lf_error>>

\* Mutant of generate_feed_encode: the error handler sets the switch.
generate_feed_encode_sets_terminate(f, encoded) ==
    /\ lf_pc[f] = "encode"
    /\ IF encoded
       THEN /\ lf_images' = [lf_images EXCEPT ![f] = @ + 1]
            /\ lf_pc' = [lf_pc EXCEPT ![f] = "sync"]
            /\ UNCHANGED <<lf_error, lf_terminate>>
       ELSE /\ lf_error' = [lf_error EXCEPT ![f] = TRUE]
            /\ lf_pc' = [lf_pc EXCEPT ![f] = "final"]
            /\ lf_terminate' = TRUE
            /\ UNCHANGED lf_images
    /\ UNCHANGED <<clock_vars, config_vars, main_vars, score_vars, camera_vars, sync_vars, motion_vars,
                   recorder_vars, thread_vars, detect_thread, app_pc, requests,
                   history_vars, lf_start_time, lf_terminals, lf_signal>>

\* The loop body up to its yield; `encoded` is whether imencode succeeds.  When
\* it does, the image chunk is yielded; when it raises, the handler keeps the
\* error text and leaves the loop.
generate_feed_encode(f, encoded) ==
    /\ lf_pc[f] = "encode"
    /\ IF encoded
       THEN /\ lf_images' = [lf_images EXCEPT ![f] = @ + 1]
            /\ lf_pc' = [lf_pc EXCEPT ![f] = "sync"]
            /\ UNCHANGED lf_error
       ELSE /\ lf_error' = [lf_error EXCEPT ![f] = TRUE]
            /\ lf_pc' = [lf_pc EXCEPT ![f] = "final"]
            /\ UNCHANGED lf_images
    /\ UNCHANGED <<clock_vars, config_vars, main_vars, score_vars, camera_vars, sync_vars, motion_vars,
                   recorder_vars, thread_vars, app_vars, history_vars, lf_start_time, lf_terminals, lf_signal>>

\* The generator is resumed after its yield: wait_for_next_sampling returns at
\* once (overrun) or goes to sleep until the next tick.
generate_feed_wait(f) ==
    /\ lf_pc[f] = "sync"
    /\ LET r == wait_for_next_sampling(lf_start_time[f], now, sampling_interval) IN
        /\ lf_start_time' = [lf_start_time EXCEPT ![f] = r.tick]
        /\ lf_pc' = [lf_pc EXCEPT ![f] = IF r.sleep > 0 THEN "wait" ELSE "poll"]
    /\ UNCHANGED <<clock_vars, config_vars, main_vars, score_vars, camera_vars, sync_vars, motion_vars,
                   recorder_vars, thread_vars, app_vars, history_vars, lf_images, lf_terminals, lf_error, lf_signal>>

\* time.sleep returns once the tick the generator sleeps until has come.
generate_feed_wake(f) ==
    /\ lf_pc[f] = "wait"
    /\ now >= lf_start_time[f]
    /\ lf_pc' = [lf_pc EXCEPT ![f] = "poll"]
    /\ UNCHANGED <<clock_vars, config_vars, main_vars, score_vars, camera_vars, sync_vars, motion_vars,
                   recorder_vars, thread_vars, app_vars, history_vars, lf_start_time, lf_images, lf_terminals, lf_error, lf_signal>>

\* After the loop: the terminal text chunk is yielded, with the error text when
\* there is one; the next next() raises StopIteration.
generate_feed_end(f) ==
    /\ lf_pc[f] = "final"
    /\ lf_terminals' = [lf_terminals EXCEPT ![f] = @ + 1]
    /\ lf_pc' = [lf_pc EXCEPT ![f] = "done"]
    /\ UNCHANGED <<clock_vars, config_vars, main_vars, score_vars, camera_vars, sync_vars, motion_vars,
                   recorder_vars, thread_vars, app_vars, history_vars, lf_start_time, lf_images, lf_error, lf_signal>>

\* ------------------------------------------------------------------- Next

Next ==
    \/ Tick
    \/ start_capture
    \/ stop_capture
    \/ stop_capture_joined
    \/ enable_video_storage
    \/ disable_video_storage
    \/ end_feed
    \/ terminate
    \/ app_exit
    \/ app_exit_joined
    \/ \E c \in Captures : capture_camera_feed(c)
    \/ \E c \in Captures : capture_terminated(c)
    \/ \E c \in Captures : capture_frame_raises(c)
    \/ \E c \in Captures : \E captured \in Frames : handle_frame(c, captured)
    \/ \E c \in Captures : capture_wait(c)
    \/ \E c \in Captures : capture_wake(c)
    \/ \E t \in Tasks : \E opened \in BOOLEAN : start_recording(t, opened)
    \/ \E t \in Tasks : store_video(t)
    \/ \E t \in Tasks : write_frame(t)
    \/ \E t \in Tasks : write_frame_wake(t)
    \/ \E t \in Tasks : write_frame_raises(t)
    \/ \E t \in Tasks : stop_recording(t)

Spec == Init /\ [][Next]_vars

\* --------------------------------------- the synchronizer on its own

\* A periodic caller: any configured rate, any first tick not after the clock.
InitSync ==
    /\ \E rate \in Rates :
        /\ sampling_rate = set_rate(rate).sampling_rate
        /\ sampling_interval = set_rate(rate).sampling_interval
    /\ now \in 0..MaxSyncTime
    /\ previous_tick \in {None} \cup 0..now
    /\ last_call = NoCall
    /\ grid_origin = previous_tick
    /\ InitConfig
    /\ InitMain /\ InitFeedIdle /\ InitScoreIdle /\ InitCameraIdle
    /\ InitApp

app_state == <<motion_vars, recorder_vars, thread_vars, app_vars, history_vars>>

\* Time passes between two calls.
SyncElapse ==
    /\ now < MaxSyncTime
    /\ now' = now + 1
    /\ UNCHANGED <<sampling_rate, sampling_interval, config_vars, rest_vars, sync_vars, app_state>>

\* The caller calls wait_for_next_sampling with its tick and keeps the result,
\* as the capture, write and stream loops do; the clock advances by the sleep.
SyncCall ==
    /\ now <= MaxSyncTime
    /\ LET r == wait_for_next_sampling(previous_tick, now, sampling_interval) IN
        /\ last_call' = [start_time |-> previous_tick, at |-> now, tick |-> r.tick,
                         sleep |-> r.sleep, absent |-> previous_tick = None]
        /\ previous_tick' = r.tick
        /\ grid_origin' = IF previous_tick = None THEN r.tick ELSE grid_origin
        /\ now' = now + r.sleep
    /\ UNCHANGED <<sampling_rate, sampling_interval, config_vars, rest_vars, app_state>>

\* The caller starts a new loop: its tick is absent again.
SyncRestart ==
    /\ previous_tick # None
    /\ previous_tick' = None
    /\ grid_origin' = None
    /\ UNCHANGED <<clock_vars, config_vars, rest_vars, last_call, app_state>>

NextSync == SyncElapse \/ SyncCall \/ SyncRestart

SpecSync == InitSync /\ [][NextSync]_vars

\* --------------------------------------- the motion score on its own

\* Two 8-bit frames of the same size, each of one gray level.
InitScore ==
    /\ InitClock /\ InitSyncIdle /\ InitConfig
    /\ InitMain /\ InitFeedIdle /\ InitCameraIdle
    /\ InitApp
    /\ \E size \in 1..MaxPixels : \E level1 \in PixelValues : \E level2 \in PixelValues :
          score_call = [frame1 |-> [i \in 1..size |-> level1],
                        frame2 |-> [i \in 1..size |-> level2],
                        called |-> FALSE, err |-> 0, frame_size |-> 0]

\* mean_squared_error is called on the two frames.
ScoreCall ==
    /\ ~score_call.called
    /\ LET r == mean_squared_error(score_call.frame1, score_call.frame2) IN
        score_call' = [score_call EXCEPT !.called = TRUE, !.err = r.err,
                                         !.frame_size = r.frame_size]
    /\ UNCHANGED <<clock_vars, config_vars, main_vars, feed_vars, camera_vars, sync_vars,
                   app_state>>

NextScore == ScoreCall

SpecScore == InitScore /\ [][NextScore]_vars

\* ------------------------------------- the camera handler on its own

\* A camera with one to MaxModes sensor modes and a requested frame size.
InitCamera ==
    /\ InitClock /\ InitSyncIdle /\ InitConfig
    /\ InitMain /\ InitFeedIdle /\ InitScoreIdle
    /\ InitApp
    /\ frame_alert = FALSE
    /\ \E n \in 1..MaxModes : \E modes \in [1..n -> Sizes] : \E frame_size \in Sizes :
          camera_call = [NoCamera EXCEPT !.modes = modes, !.frame_size = frame_size]

\* CameraHandler is constructed on that camera.
CameraInit ==
    /\ ~camera_call.called
    /\ LET r == camera_handler_init(camera_call.modes, camera_call.frame_size) IN
        camera_call' = [camera_call EXCEPT !.called = TRUE, !.full_size = r.full_size,
                                           !.exited = r.exited, !.started = r.started]
    /\ UNCHANGED <<clock_vars, config_vars, main_vars, feed_vars, score_vars, frame_alert,
                   sync_vars, app_state>>

NextCamera == CameraInit

SpecCamera == InitCamera /\ [][NextCamera]_vars

\* ------------------------------------------------ punctual threads
\* The same program when no thread is ever late: a step takes no time, and the
\* clock advances only while every thread is blocked in time.sleep (or ended).

NominalRates == {r \in Rates : UnitsPerSecond \div r <= 2}

InitNominal ==
    /\ now = 0
    /\ \E rate \in NominalRates :
        /\ sampling_rate = set_rate(rate).sampling_rate
        /\ sampling_interval = set_rate(rate).sampling_interval
    /\ InitSyncIdle
    /\ \/ InitConfig
       \/ /\ motion_interval = NominalMotionInterval
          /\ max_segment_duration = NominalMaxDuration
          /\ request_budget = MaxRequests
          /\ capture_limit = MaxCaptures
    /\ InitMain /\ InitFeedIdle /\ InitScoreIdle /\ InitCameraIdle
    /\ (InitApp \/ InitRunning)

CaptureRunnable(c) ==
    \/ cap_pc[c] \in {"begin", "loop", "sync"}
    \/ cap_pc[c] = "wait" /\ now >= cap_start_time[c]

RecordingRunnable(t) ==
    \/ rec_pc[t] \in {"start", "check", "write", "stop"}
    \/ rec_pc[t] = "sleep" /\ now >= rec_wake[t]

JoinRunnable ==
    \/ app_pc = "joining" /\ cap_pc[detect_thread] \in {"done", "failed"}
    \/ main_pc = "exiting"
    \/ main_pc = "joining" /\ cap_pc[detect_thread] \in {"done", "failed"}

FeedRunnable(f) ==
    \/ lf_pc[f] \in {"begin", "poll", "encode", "sync", "final"}
    \/ lf_pc[f] = "wait" /\ now >= lf_start_time[f]

\* One clock unit passes while every thread sleeps.
TickNominal ==
    /\ now < MaxNominalTime
    /\ \A c \in Captures : ~CaptureRunnable(c)
    /\ \A t \in Tasks : ~RecordingRunnable(t)
    /\ \A f \in Feeds : ~FeedRunnable(f)
    /\ ~JoinRunnable
    /\ now' = now + 1
    /\ expired' = [t \in Tasks |->
                     expired[t] \/ (InSession(t) /\ last_motion_time # None
                                    /\ now + 1 - last_motion_time > motion_interval)]
    /\ UNCHANGED <<sampling_rate, sampling_interval, config_vars, rest_vars, sync_vars, motion_vars,
                   recorder_vars, thread_vars, app_vars, observed, rec_frames, stop_calls,
                   segment_started, first_frame_time>>

NextNominal ==
    \/ TickNominal
    \/ start_capture
    \/ stop_capture
    \/ stop_capture_joined
    \/ enable_video_storage
    \/ disable_video_storage
    \/ end_feed
    \/ terminate
    \/ app_exit
    \/ app_exit_joined
    \/ \E c \in Captures : capture_camera_feed(c)
    \/ \E c \in Captures : capture_terminated(c)
    \/ \E c \in Captures : capture_frame_raises(c)
    \/ \E c \in Captures : \E captured \in Frames : handle_frame(c, captured)
    \/ \E c \in Captures : capture_wait(c)
    \/ \E c \in Captures : capture_wake(c)
    \/ \E t \in Tasks : \E opened \in BOOLEAN : start_recording(t, opened)
    \/ \E t \in Tasks : store_video(t)
    \/ \E t \in Tasks : write_frame(t)
    \/ \E t \in Tasks : write_frame_wake(t)
    \/ \E t \in Tasks : write_frame_raises(t)
    \/ \E t \in Tasks : stop_recording(t)

SpecNominal == InitNominal /\ [][NextNominal]_vars

\* ------------------------------------- punctual threads and the live stream
\* The same, over a shorter time and with more requests, live-stream requests
\* among them.

InitFeed ==
    /\ now = 0
    /\ \E rate \in NominalRates :
        /\ sampling_rate = set_rate(rate).sampling_rate
        /\ sampling_interval = set_rate(rate).sampling_interval
    /\ InitSyncIdle
    /\ motion_interval = MotionInterval
    /\ max_segment_duration = MaxDuration
    /\ request_budget = MaxFeedRequests
    /\ capture_limit = MaxCaptures
    /\ InitMain /\ InitScoreIdle /\ InitCameraIdle
    /\ (InitFeedIdle \/ InitViewing)
    /\ (InitApp \/ InitRunning)

TickFeed == now < MaxFeedTime /\ TickNominal

NextFeed ==
    \/ TickFeed
    \/ start_capture
    \/ stop_capture
    \/ stop_capture_joined
    \/ enable_video_storage
    \/ disable_video_storage
    \/ end_feed
    \/ live_feed
    \/ terminate
    \/ app_exit
    \/ app_exit_joined
    \/ \E c \in Captures : capture_camera_feed(c)
    \/ \E c \in Captures : capture_terminated(c)
    \/ \E c \in Captures : capture_frame_raises(c)
    \/ \E c \in Captures : \E captured \in Frames : handle_frame(c, captured)
    \/ \E c \in Captures : capture_wait(c)
    \/ \E c \in Captures : capture_wake(c)
    \/ \E t \in Tasks : \E opened \in BOOLEAN : start_recording(t, opened)
    \/ \E t \in Tasks : store_video(t)
    \/ \E t \in Tasks : write_frame(t)
    \/ \E t \in Tasks : write_frame_wake(t)
    \/ \E t \in Tasks : write_frame_raises(t)
    \/ \E t \in Tasks : stop_recording(t)
    \/ \E f \in Feeds : generate_feed(f)
    \/ \E f \in Feeds : generate_feed_poll(f)
    \/ \E f \in Feeds : \E encoded \in BOOLEAN : generate_feed_encode(f, encoded)
    \/ \E f \in Feeds : generate_feed_wait(f)
    \/ \E f \in Feeds : generate_feed_wake(f)
    \/ \E f \in Feeds : generate_feed_end(f)

SpecFeed == InitFeed /\ [][NextFeed]_vars

\* ------------------------------------ punctual threads and capture restarts
\* The same, over a shorter time, with more requests and with as many capture
\* threads as start_capture is asked for.

InitRestart ==
    /\ now = 0
    /\ \E rate \in NominalRates :
        /\ sampling_rate = set_rate(rate).sampling_rate
        /\ sampling_interval = set_rate(rate).sampling_interval
    /\ InitSyncIdle
    /\ motion_interval = MotionInterval
    /\ max_segment_duration = MaxDuration
    /\ request_budget = MaxRestartRequests
    /\ capture_limit = MaxRestartCaptures
    /\ InitMain /\ InitFeedIdle /\ InitScoreIdle /\ InitCameraIdle
    /\ (InitApp \/ InitRunning)

TickRestart == now < MaxRestartTime /\ TickNominal

NextRestart ==
    \/ TickRestart
    \/ start_capture
    \/ stop_capture
    \/ stop_capture_joined
    \/ enable_video_storage
    \/ disable_video_storage
    \/ end_feed
    \/ terminate
    \/ app_exit
    \/ app_exit_joined
    \/ \E c \in Captures : capture_camera_feed(c)
    \/ \E c \in Captures : capture_terminated(c)
    \/ \E c \in Captures : capture_frame_raises(c)
    \/ \E c \in Captures : \E captured \in Frames : handle_frame(c, captured)
    \/ \E c \in Captures : capture_wait(c)
    \/ \E c \in Captures : capture_wake(c)
    \/ \E t \in Tasks : \E opened \in BOOLEAN : start_recording(t, opened)
    \/ \E t \in Tasks : store_video(t)
    \/ \E t \in Tasks : write_frame(t)
    \/ \E t \in Tasks : write_frame_wake(t)
    \/ \E t \in Tasks : write_frame_raises(t)
    \/ \E t \in Tasks : stop_recording(t)

SpecRestart == InitRestart /\ [][NextRestart]_vars

\* ================================================================= claims

\* A recording thread that exists and has not ended.
Running(t) == rec_pc[t] \in {"start", "check", "write", "sleep", "stop"}

\* C1: at most one recording session is open at any time: never more than one
\* store_video thread between start_recording and stop_recording, and never more
\* than one unreleased output handle.
C1_OneSessionOpen ==
    /\ Cardinality({t \in Tasks : InSession(t)}) <= 1
    /\ Cardinality(unreleased) <= 1

\* C2 as stated: a session is stopped exactly once, and write_frame is called zero
\* more times after the instant at which now - last_motion_time >
\* motion_hold_interval first holds in the session.
C2_NoWriteAfterHoldFirstHolds ==
    /\ [](\A t \in Tasks : stop_calls[t] <= 1)
    /\ [][\A t \in Tasks : expired[t] => ~WriteFrameCalled(t)]_vars

\* C2 amended: a session whose stop check observes now - last_motion_time >
\* motion_hold_interval is stopped by that check: write_frame is called zero more
\* times after it, and stop_recording is called exactly once for the session.
C2_StoppedOnceWhenHoldObserved ==
    /\ [](\A t \in Tasks :
            /\ stop_calls[t] <= 1
            /\ rec_pc[t] = "done" <=> stop_calls[t] = 1
            /\ observed[t] => rec_pc[t] \in {"stop", "done"})
    /\ [][\A t \in Tasks : observed[t] => ~WriteFrameCalled(t)]_vars

\* C2 witness: a session that wrote frames, saw the hold condition at its check
\* and has been stopped once.
C2_Witness ==
    \E t \in Tasks :
        observed[t] /\ rec_pc[t] = "done" /\ stop_calls[t] = 1 /\ rec_frames[t] > 0

\* The stop policy at the current instant: hold interval over, terminate set, or
\* the writer's segment over its maximum duration.
StopCondition ==
    \/ HoldExpired
    \/ mh_terminate
    \/ (recording_active /\ start_time # None /\ now - start_time > max_segment_duration)

\* C3: the recording thread checks the stop policy before every write_frame: a
\* check is followed by write_frame exactly when no stop condition holds at it and
\* by stop_recording otherwise; a frame is written only by a write_frame call that
\* follows a passing check, one frame per call; none is written once the thread
\* is stopping, so a condition that holds at session start leaves zero frames.
C3_StopPolicyBeforeEveryWrite ==
    [][\A t \in Tasks :
        /\ (rec_pc[t] = "check" /\ rec_pc'[t] # "check")
              => /\ rec_pc'[t] = (IF StopCondition THEN "stop" ELSE "write")
                 /\ rec_frames'[t] = rec_frames[t]
        /\ (rec_pc'[t] = "write" /\ rec_pc[t] # "write") => rec_pc[t] = "check"
        /\ (rec_pc'[t] = "sleep" /\ rec_pc[t] # "sleep") => rec_pc[t] = "write"
        /\ rec_frames'[t] # rec_frames[t]
              => /\ rec_pc[t] \in {"write", "sleep"}
                 /\ rec_pc'[t] = "check"
                 /\ rec_frames'[t] = rec_frames[t] + 1
        /\ rec_pc[t] = "start" => rec_frames'[t] = 0
        /\ rec_pc[t] = "stop" => rec_pc'[t] \in {"stop", "done"}
      ]_vars

\* C3 witness: terminate was set when the session started; the session has been
\* stopped with zero frames written.
C3_Witness ==
    \E t \in Tasks :
        rec_pc[t] = "done" /\ rec_frames[t] = 0 /\ stop_calls[t] = 1 /\ mh_terminate
        /\ ~observed[t]

\* C4: in the state right after stop_capture returns, no recording thread is still
\* running, recording_active is false and no output handle is open.
C4_StopCaptureJoinsRecording ==
    [][StopCaptureReturns
         => /\ \A t \in Tasks : ~Running(t)'
            /\ ~recording_active'
            /\ unreleased' = {}]_vars

\* The latest wait_for_next_sampling call was made with a previous tick.
CalledWithTick == last_call.at # None /\ ~last_call.absent
Elapsed == last_call.at - last_call.start_time

\* C5: for every overrun with k*interval <= elapsed - interval < (k+1)*interval,
\* k >= 0, the call returns previous_tick + (k+1)*interval and does not sleep.
C5_OverrunSkipsMissedTicks ==
    CalledWithTick =>
        \A k \in 0..MaxSyncTime :
            (/\ k * sampling_interval <= Elapsed - sampling_interval
             /\ Elapsed - sampling_interval < (k + 1) * sampling_interval)
            => /\ last_call.tick = last_call.start_time + (k + 1) * sampling_interval
               /\ last_call.sleep = 0

\* C5 witness: an overrun of more than one interval that is not a whole number
\* of intervals.
C5_Witness ==
    /\ CalledWithTick
    /\ Elapsed - sampling_interval > sampling_interval
    /\ Elapsed % sampling_interval # 0

\* C6 as stated: on an overrun the returned tick is not earlier than the current
\* time and less than one interval after it.
C6_OverrunReturnsFutureTick ==
    (CalledWithTick /\ Elapsed >= sampling_interval)
        => /\ last_call.tick >= last_call.at
           /\ last_call.tick < last_call.at + sampling_interval

\* C6 amended: on an overrun the returned tick is the latest boundary of the
\* caller's tick grid that is not after the current time: it is at most the
\* current time and less than one interval before it.
C6_OverrunReturnsLatestPastTick ==
    (CalledWithTick /\ Elapsed >= sampling_interval)
        => /\ last_call.tick <= last_call.at
           /\ last_call.tick > last_call.at - sampling_interval
           /\ (last_call.tick - last_call.start_time) % sampling_interval = 0
           /\ last_call.sleep = 0

\* C6 witness: an overrun whose returned tick is strictly before the current time.
C6_Witness ==
    /\ CalledWithTick
    /\ Elapsed >= sampling_interval
    /\ last_call.tick < last_call.at

\* C7: with elapsed < interval (no overrun) the call sleeps exactly
\* interval - elapsed and returns exactly previous_tick + interval.
C7_NoOverrunSleepsTheRemainder ==
    (CalledWithTick /\ Elapsed < sampling_interval)
        => /\ last_call.sleep = sampling_interval - Elapsed
           /\ last_call.tick = last_call.start_time + sampling_interval

\* C7 witness: a call made part of an interval after the previous tick.
C7_Witness ==
    /\ CalledWithTick
    /\ 0 < Elapsed
    /\ Elapsed < sampling_interval
    /\ last_call.sleep > 0

\* C8: with an absent previous tick the call returns the current time and does
\* not sleep, whatever the rate.
C8_AbsentTickReturnsNow ==
    (last_call.at # None /\ last_call.absent)
        => /\ last_call.tick = last_call.at
           /\ last_call.sleep = 0

\* C8 witness: a first call made after the clock's origin at a rate other than
\* the fastest.
C8_Witness ==
    /\ last_call.at # None
    /\ last_call.absent
    /\ last_call.at > 0
    /\ sampling_interval > 1

\* C9: a start_recording that cannot open the sink leaves recording_active false.
C9_FailedStartLeavesInactive ==
    [][\A t \in Tasks :
         (rec_pc[t] = "start" /\ rec_pc'[t] = "failed") => ~recording_active']_vars

\* C10: is_segment_duration_exceeded is false before any start_recording and
\* whenever recording is not active; while recording is active it is true exactly
\* when now - start_time > max_segment_duration, start_time being the instant the
\* current segment was started.
C10_SegmentDurationExceeded ==
    LET exceeded == is_segment_duration_exceeded(recording_active, start_time, now) IN
        /\ segment_started = None => ~exceeded
        /\ ~recording_active => ~exceeded
        /\ (recording_active /\ segment_started # None)
              => (exceeded <=> now - segment_started > max_segment_duration)
        /\ start_time = segment_started

\* C10 witness: a segment stopped by the duration cap alone, now over and longer
\* ago than the cap.
C10_Witness ==
    \E t \in Tasks :
        /\ rec_pc[t] = "done"
        /\ ~observed[t]
        /\ ~mh_terminate
        /\ ~recording_active
        /\ start_time # None
        /\ now - start_time > max_segment_duration

\* A step in which thread t appends a frame to the output.
FrameWritten(t) == rec_frames'[t] = rec_frames[t] + 1

\* C11: in every segment the first frame is written by a write_frame call that
\* does not sleep; each later write_frame call is paced by the Synchronizer from
\* the tick of the previous frame (it sleeps to previous tick + interval, or on an
\* overrun writes at once on the tick grid); each call appends exactly one frame
\* and increases frame_count by exactly 1.
C11_FirstFrameAtOnceLaterFramesPaced ==
    [][\A t \in Tasks :
        /\ FrameWritten(t)
              => /\ vr_frame_count' = vr_frame_count + 1
                 /\ rec_pc[t] \in {"write", "sleep"}
                 /\ vr_frame_count = 0 => rec_pc[t] = "write"
        /\ WriteFrameCalled(t)
              => IF vr_frame_count = 0
                 THEN FrameWritten(t) /\ frame_start_time' = now
                 ELSE /\ frame_start_time # None
                      /\ IF now - frame_start_time < sampling_interval
                         THEN /\ rec_pc'[t] = "sleep"
                              /\ rec_wake'[t] = frame_start_time + sampling_interval
                              /\ ~FrameWritten(t)
                         ELSE /\ FrameWritten(t)
                              /\ frame_start_time' <= now
                              /\ frame_start_time' > now - sampling_interval
                              /\ (frame_start_time' - frame_start_time) % sampling_interval = 0
        /\ (rec_pc[t] = "sleep" /\ rec_pc'[t] # "sleep")
              => /\ FrameWritten(t)
                 /\ frame_start_time' = rec_wake[t]
                 /\ now >= rec_wake[t]
      ]_vars

\* C12: after every successful start_recording, also for the second and later
\* segments of the writer, recording_active is true, frame_count is 0, the pacing
\* tick frame_start_time is absent and start_time is the time of the call.
C12_StartRecordingResetsSegment ==
    [][\A t \in Tasks :
        (rec_pc[t] = "start" /\ rec_pc'[t] = "check")
            => /\ recording_active'
               /\ vr_frame_count' = 0
               /\ frame_start_time' = None
               /\ start_time' = now
               /\ out' \in unreleased'
      ]_vars

\* C12 witness: a second segment has just been started, after a first segment
\* of the same writer that wrote frames and was stopped.
C12_Witness ==
    \E t, u \in Tasks :
        /\ rec_pc[u] = "done" /\ rec_frames[u] > 0
        /\ rec_pc[t] = "check" /\ rec_frames[t] = 0
        /\ recording_active /\ start_time = now
        /\ vr_frame_count = 0 /\ frame_start_time = None

\* C13: after stop_recording the output is released, recording_active is false
\* and the writer holds no output handle (out is None).
C13_StopRecordingDropsHandle ==
    [][\A t \in Tasks :
        (rec_pc[t] = "stop" /\ rec_pc'[t] = "done")
            => /\ out \notin unreleased'
               /\ ~recording_active'
               /\ out' = None
      ]_vars

\* The step in which capture thread c makes one handle_frame call.
HandleFrameStep(c) == cap_pc[c] = "loop" /\ cap_pc'[c] = "sync"

\* The recording threads spawned by a step.
Spawned == {t \in Tasks : rec_pc[t] = "none" /\ rec_pc'[t] = "start"}

\* C14: when a pending motion is handled, last_motion_time is set to now and a
\* recording thread is spawned if and only if storage is enabled and
\* recording_active is false at that moment; the recording is not started inline:
\* the handle_frame call leaves the writer untouched and the new thread has yet to
\* call start_recording.
C14_MotionHandledSpawnsWhenIdle ==
    [][\A c \in Captures :
        (HandleFrameStep(c) /\ motion_detected)
            => /\ last_motion_time' = now
               /\ IF storage_enabled /\ ~recording_active
                  THEN /\ Cardinality(Spawned) = 1
                       /\ start_video_thread' \in Spawned
                  ELSE /\ rec_pc' = rec_pc
                       /\ start_video_thread' = start_video_thread
               /\ UNCHANGED recorder_vars
      ]_vars

\* C14 witness: a motion has just been handled while the only recording session
\* was active, and no second thread was spawned.
C14_Witness ==
    /\ last_motion_time = now
    /\ recording_active
    /\ start_time # None
    /\ start_time < last_motion_time
    /\ Cardinality({t \in Tasks : rec_pc[t] # "none"}) = 1
    /\ \E t \in Tasks : InSession(t)

\* C15: a handle_frame call that finds no pending motion handles none, even when
\* its own comparison detects one: last_motion_time and the recording threads are
\* untouched; the flag stays pending between calls and the next call handles it,
\* once: it stamps last_motion_time and leaves the flag false.
C15_MotionHandledInTheNextCall ==
    [][/\ \A c \in Captures :
            HandleFrameStep(c)
                => IF motion_detected
                   THEN last_motion_time' = now /\ ~motion_detected'
                   ELSE /\ last_motion_time' = last_motion_time
                        /\ rec_pc' = rec_pc
                        /\ start_video_thread' = start_video_thread
       /\ (\A c \in Captures : ~HandleFrameStep(c))
            => /\ motion_detected' = motion_detected
               /\ last_motion_time' = last_motion_time
      ]_vars

\* C15 witness: the call after a comparison that detected motion has just handled
\* it (the motion pending in the initial running state is handled before
\* FRAME_SKIPS clock units have passed).
C15_Witness ==
    \E c \in Captures :
        /\ cap_pc[c] = "sync"
        /\ mh_frame_count = 1
        /\ ~motion_detected
        /\ last_motion_time = now
        /\ now >= FRAME_SKIPS

\* C16: handle_frame replaces the reference frame on exactly every FRAME_SKIPS-th
\* call, counted from frame_count = 0, and leaves it unchanged on the other calls;
\* frame_count goes 1..FRAME_SKIPS-1 and then back to 0.
C16_ReferenceFrameEveryNthCall ==
    [][/\ \A c \in Captures :
            HandleFrameStep(c)
                => IF mh_frame_count = FRAME_SKIPS - 1
                   THEN mh_frame_count' = 0 /\ reference_frame' \in Frames
                   ELSE /\ mh_frame_count' = mh_frame_count + 1
                        /\ mh_frame_count' \in 1..(FRAME_SKIPS - 1)
                        /\ reference_frame' = reference_frame
       /\ (\A c \in Captures : ~HandleFrameStep(c) /\ cap_pc[c] # "begin")
            => UNCHANGED <<mh_frame_count, reference_frame>>
      ]_vars

\* C16 witness: the FRAME_SKIPS-th call of a capture run has just stored its frame
\* as the first reference frame.
C16_Witness ==
    \E c \in Captures :
        /\ cap_pc[c] = "sync"
        /\ mh_frame_count = 0
        /\ reference_frame \in Frames
        /\ last_motion_time = None

\* C17: a comparison frame with no predecessor never sets motion_detected,
\* whatever its content: the handle_frame call leaves the flag false and only
\* stores the frame.
C17_FirstComparisonFrameNoMotion ==
    [][\A c \in Captures :
        (HandleFrameStep(c) /\ reference_frame = NoFrame)
            => /\ ~motion_detected'
               /\ mh_frame_count = FRAME_SKIPS - 1 => reference_frame' \in Frames
      ]_vars

\* C17 witness: the first comparison frame of a run, not a black one, has been
\* stored and no motion is pending.
C17_Witness ==
    \E c \in Captures :
        /\ cap_pc[c] = "sync"
        /\ mh_frame_count = 0
        /\ reference_frame \in Frames \ {<<0>>}
        /\ ~motion_detected
        /\ last_motion_time = None
        /\ now > 0

\* C20: stopping the live view sets only the live stream's termination flag: the
\* motion-capture terminate flag, the capture thread and the recording session are
\* unchanged by it, and afterwards the capture loop ends only on the motion-capture
\* terminate flag and a recording session stops only on the stop policy, in which
\* the live stream's flag has no part.
C20_LiveViewStopLeavesCaptureAndRecording ==
    [][/\ end_feed
            => UNCHANGED <<mh_terminate, motion_vars, recorder_vars, thread_vars, detect_thread>>
       /\ \A c \in Captures :
            (cap_pc[c] # "done" /\ cap_pc'[c] = "done") => mh_terminate
       /\ \A t \in Tasks :
            (rec_pc[t] = "check" /\ rec_pc'[t] = "stop") => StopCondition
      ]_vars

\* C20 witness: the live view has been stopped; capture is still running and a
\* recording session is open and has written frames.
C20_Witness ==
    /\ lf_terminate
    /\ ~mh_terminate
    /\ \E c \in Captures : cap_pc[c] \in {"loop", "sync", "wait"}
    /\ \E t \in Tasks : rec_pc[t] \in {"check", "write", "sleep"} /\ rec_frames[t] > 0
    /\ recording_active

C21_StopCaptureLeavesLiveFeed ==
    [][(stop_capture \/ stop_capture_joined) => lf_terminate' = lf_terminate]_vars

\* C21, as the code has it: stop_capture leaves the live-stream termination flag
\* unchanged while it sets the motion-capture flag and waits for the capture
\* thread, and sets it as its last step; the flag is changed by nothing else than
\* a returning stop_capture (a request's, or the one of __exit__), end_feed and
\* live_feed: no step of the capture loop or of a recording session changes it.
C21_StopCaptureEndsLiveFeedLast ==
    [][/\ app_pc' = "joining" => lf_terminate' = lf_terminate
       /\ StopCaptureReturns => lf_terminate'
       /\ lf_terminate' # lf_terminate
            => \/ StopCaptureReturns
               \/ main_pc # "exited" /\ main_pc' = "exited"
               \/ end_feed
               \/ live_feed
      ]_vars

\* C21 witness: stop_capture has set the motion-capture flag and waits for the
\* capture thread while a recording session is open; the live view is not yet
\* stopped.
C21_Witness ==
    /\ app_pc = "joining"
    /\ mh_terminate
    /\ ~lf_terminate
    /\ \E t \in Tasks : InSession(t)

\* The step with which a stop_capture call returns, the call made by __exit__
\* included.
StopCaptureReturned ==
    \/ StopCaptureReturns
    \/ main_pc \in {"exiting", "joining"} /\ main_pc' = "exited"

\* C22: when stop_capture returns, the motion handler's terminate flag is true,
\* the capture thread it referred to has ended and is no longer referred to, and
\* the live feed handler's terminate flag is true.
C22_StopCaptureJoinsAndEndsFeed ==
    [][StopCaptureReturned
         => /\ mh_terminate'
            /\ lf_terminate'
            /\ detect_thread' = None
            /\ detect_thread # None => cap_pc'[detect_thread] \in {"done", "failed"}
      ]_vars

\* C22 witness: a stop_capture request has returned after joining a capture
\* thread that its flag has ended.
C22_Witness ==
    /\ app_pc = "idle"
    /\ main_pc = "running"
    /\ requests > 0
    /\ mh_terminate
    /\ lf_terminate
    /\ detect_thread = None
    /\ \E c \in Captures : cap_pc[c] = "done"

\* The step in which generator f yields an image chunk.
ImageYielded(f) == lf_images'[f] = lf_images[f] + 1

\* C23: once the live-stream termination flag has been set, a generator yields
\* no image chunk in an iteration that begins after that: its next loop test
\* leaves the loop, it then yields exactly one terminal text chunk and ends, and
\* an ended generator yields nothing more.
C23_FlagSetEndsFeed ==
    [][\A f \in Feeds :
        /\ ImageYielded(f) => lf_signal[f] # "ignored"
        /\ (lf_pc[f] = "poll" /\ lf_pc'[f] # "poll" /\ lf_terminate) => lf_pc'[f] = "final"
        /\ (lf_pc[f] = "final" /\ lf_pc'[f] # "final")
              => lf_pc'[f] = "done" /\ lf_terminals'[f] = 1
        /\ lf_pc[f] = "done"
              => UNCHANGED <<lf_pc[f], lf_images[f], lf_terminals[f]>>
      ]_vars

\* C24: on an encode error the generator yields exactly one terminal chunk, which
\* carries the error text, and ends; the failing step leaves the live-stream
\* termination flag, the motion handler, the writer and every capture and
\* recording thread as they are.
C24_EncodeErrorEndsOnlyTheFeed ==
    [][\A f \in Feeds :
        /\ (lf_pc[f] = "encode" /\ lf_pc'[f] = "final")
              => /\ lf_error'[f]
                 /\ UNCHANGED <<lf_terminate, motion_vars, recorder_vars, thread_vars,
                                detect_thread, lf_images, lf_terminals>>
        /\ (lf_error[f] /\ lf_pc[f] = "final" /\ lf_pc'[f] # "final")
              => lf_pc'[f] = "done" /\ lf_terminals'[f] = 1 /\ lf_error'[f]
        /\ (lf_error[f] /\ lf_pc[f] = "done")
              => /\ lf_terminals[f] = 1
                 /\ UNCHANGED <<lf_pc[f], lf_images[f], lf_terminals[f], lf_error[f]>>
      ]_vars

\* C24 witness: a generator has ended on an encode error after its one terminal
\* chunk; the live-stream flag is not set, capture is running and a recording
\* session is open and has written frames.
C24_Witness ==
    /\ \E f \in Feeds : lf_pc[f] = "done" /\ lf_error[f] /\ lf_terminals[f] = 1
    /\ ~lf_terminate
    /\ ~mh_terminate
    /\ \E c \in Captures : cap_pc[c] \in {"loop", "sync", "wait"}
    /\ \E t \in Tasks : rec_pc[t] \in {"check", "write", "sleep"} /\ rec_frames[t] > 0

\* The first step of generator f when an earlier sequence has terminated.
FreshSequenceStarts(f) ==
    /\ lf_pc[f] = "begin" /\ lf_pc'[f] # "begin"
    /\ \E g \in Feeds : lf_pc[g] = "done"

\* C25: after a sequence has terminated, a live_feed request resets the flag and
\* creates a new sequence, and that sequence starts its pacing with an absent
\* previous tick.
C25_FreshFeedHasAbsentTick ==
    [][/\ live_feed => ~lf_terminate' /\ (\E f \in Feeds : lf_pc[f] = "none" /\ lf_pc'[f] = "begin")
       /\ \A f \in Feeds : FreshSequenceStarts(f) => lf_start_time'[f] = None
      ]_vars

\* C25, as the code has it: after a sequence has terminated, a live_feed request
\* resets the flag and creates a new sequence; the previous tick of that sequence
\* is not absent but the time of its first step, whatever tick the earlier
\* sequence had, so that its first pacing wait ends one sampling interval after
\* that first step at the earliest.
C25_FreshFeedPacesFromItsStart ==
    [][/\ live_feed => ~lf_terminate' /\ (\E f \in Feeds : lf_pc[f] = "none" /\ lf_pc'[f] = "begin")
       /\ \A f \in Feeds :
            /\ FreshSequenceStarts(f) => lf_start_time'[f] = now
            /\ (lf_pc[f] = "sync" /\ lf_pc'[f] # "sync" /\ lf_images[f] = 1
                  /\ now - lf_start_time[f] < sampling_interval)
                  => /\ lf_pc'[f] = "wait"
                     /\ lf_start_time'[f] = lf_start_time[f] + sampling_interval
      ]_vars

\* C25 witness: a sequence that began at another time has terminated, and a new
\* one, created by a later live_feed request, has yielded its first image and
\* sleeps until one interval after its own start.
C25_Witness ==
    \E f \in Feeds : \E g \in Feeds :
        /\ lf_pc[g] = "done"
        /\ lf_pc[f] = "wait"
        /\ lf_images[f] = 1
        /\ f > g
        /\ lf_start_time[g] # None
        /\ lf_start_time[f] > lf_start_time[g] + sampling_interval
        /\ ~lf_terminate

\* Capture thread c is in its first pacing wait: one frame has been captured.
FirstWait(c) ==
    cap_pc[c] \in {"sync", "wait"} /\ mh_frame_count = 1 /\ reference_frame = NoFrame

\* C26: the capture loop tests terminate before each handle_frame call and
\* nowhere else: with the flag set no handle_frame call starts, a loop test ends
\* the thread, the pacing wait in progress runs to its tick, and a thread whose
\* flag is set during its first pacing wait captures no second frame.
C26_TerminatePolledBeforeHandleFrame ==
    [][\A c \in Captures :
        /\ HandleFrameStep(c) => ~mh_terminate
        /\ (mh_terminate /\ cap_pc[c] = "loop" /\ cap_pc'[c] # "loop") => cap_pc'[c] = "done"
        /\ (mh_terminate /\ cap_pc[c] = "sync" /\ cap_pc'[c] # "sync")
              => cap_pc'[c] \in {"wait", "loop"}
        /\ (mh_terminate /\ cap_pc[c] = "wait" /\ cap_pc'[c] # "wait")
              => cap_pc'[c] = "loop" /\ now >= cap_start_time[c]
        /\ (mh_terminate /\ FirstWait(c) /\ cap_pc'[c] # cap_pc[c])
              => mh_frame_count' = 1
      ]_vars

\* C26 witness: terminate was set during the first pacing wait of a capture
\* thread, which has ended after the one frame it had captured.
C26_Witness ==
    /\ mh_terminate
    /\ mh_frame_count = 1
    /\ reference_frame = NoFrame
    /\ \E c \in Captures : cap_pc[c] = "done" /\ cap_start_time[c] > 0

\* C27: the process never keeps running with a dead capture loop: once
\* capture_frame has failed in a capture thread, the application serves no
\* further request.
C27_CaptureFailureEndsApplication ==
    [][(\E c \in Captures : cap_pc[c] = "failed")
         => ~(\/ start_capture
              \/ stop_capture
              \/ enable_video_storage
              \/ disable_video_storage
              \/ end_feed)
      ]_vars

\* The step in which recording thread t ends on a write error.
WriteFailed(t) == rec_pc[t] # "crashed" /\ rec_pc'[t] = "crashed"

\* C28: a write error in a recording thread ends that thread only: the failing
\* step leaves the motion handler, the capture threads and the other recording
\* threads as they are, and a capture thread ends only on its terminate flag or
\* on a failure of its own capture_frame call.
C28_WriteErrorLeavesCaptureLoop ==
    [][/\ \A t \in Tasks :
            WriteFailed(t)
              => /\ UNCHANGED <<motion_vars, cap_pc, cap_start_time, detect_thread>>
                 /\ \A u \in Tasks \ {t} : rec_pc'[u] = rec_pc[u]
       /\ \A c \in Captures :
            /\ (cap_pc[c] # "done" /\ cap_pc'[c] = "done") => mh_terminate
            /\ (cap_pc[c] # "failed" /\ cap_pc'[c] = "failed")
                  => cap_pc[c] = "loop" /\ UNCHANGED rec_pc
      ]_vars

\* C28 witness: a recording thread ended on the write error of its first frame,
\* and more than one sampling interval later the capture loop, still running,
\* has handled a newly detected motion.
C28_Witness ==
    /\ \E t \in Tasks : rec_pc[t] = "crashed" /\ rec_frames[t] = 0
    /\ vr_frame_count = 0
    /\ frame_start_time # None
    /\ last_motion_time # None
    /\ last_motion_time > frame_start_time + sampling_interval
    /\ ~mh_terminate
    /\ \E c \in Captures : cap_pc[c] \in {"loop", "sync", "wait"}

\* C29: the signal handler sets the application's termination switch, and when
\* the shutdown it starts has run, that switch, the motion-capture terminate flag
\* and the live-stream terminate flag are true and storage is disabled.
C29_InterruptSetsSwitchAndShutsDown ==
    [][/\ terminate => top_terminate'
       /\ (main_pc # "exited" /\ main_pc' = "exited")
            => top_terminate' /\ mh_terminate' /\ lf_terminate' /\ ~storage_enabled'
      ]_vars

\* The absolute difference of the gray levels of the two frames scored.
Offset ==
    IF score_call.frame1[1] >= score_call.frame2[1]
    THEN score_call.frame1[1] - score_call.frame2[1]
    ELSE score_call.frame2[1] - score_call.frame1[1]

\* C30: the motion score of two 8-bit frames that differ by a constant offset d
\* in every pixel is d * d, whichever frame is the brighter one (0 when they are
\* identical): err / frame_size = d * d.
C30_ConstantOffsetScoresSquare ==
    score_call.called => score_call.err = Offset * Offset * score_call.frame_size

\* A mode is large enough when it is at least as wide and at least as high as the
\* requested frame.
LargeEnough(size, frame_size) == size[1] >= frame_size[1] /\ size[2] >= frame_size[2]

LargeEnoughModes ==
    {camera_call.modes[i] : i \in {j \in 1..Len(camera_call.modes) :
                                    LargeEnough(camera_call.modes[j], camera_call.frame_size)}}

\* C31: once CameraHandler is constructed, it has kept a sensor mode of the smallest
\* area among those at least as wide and as high as the requested frame size and has
\* started the camera; when there is no such mode it has raised SystemExit and has not
\* started the camera.
C31_SmallestCoveringModeOrExit ==
    camera_call.called =>
        IF LargeEnoughModes = {}
        THEN camera_call.exited /\ ~camera_call.started
        ELSE /\ ~camera_call.exited /\ camera_call.started
             /\ camera_call.full_size \in LargeEnoughModes
             /\ \A size \in LargeEnoughModes :
                    mode_area(camera_call.full_size) <= mode_area(size)

\* A capture thread inside the loop of capture_camera_feed.
InCaptureLoop(c) == cap_pc[c] \in {"loop", "sync", "wait"}

\* C32: at most one capture loop is running at any time, whatever start_capture and
\* stop_capture requests have been made.
C32_OneCaptureLoop == Cardinality({c \in Captures : InCaptureLoop(c)}) <= 1

\* C33: the frame in the current-frame slot is as capture_frame stored it: no
\* reader of the slot has drawn on it.
C33_FrameAsCaptured == ~frame_alert

\* C38: the handle_frame call that handles a pending motion, and draws the alert on
\* its frame, is never the call in which frame_count reaches the skip factor and the
\* frame is compared and kept as the reference frame.
C38_AlertNeverOnComparisonFrame ==
    [][\A c \in Captures :
          HandleFrameStep(c) /\ frame_alert'
              => /\ mh_frame_count + 1 # FRAME_SKIPS
                 /\ mh_frame_count' # 0
                 /\ reference_frame' = reference_frame
      ]_vars

\* A motion has been handled and its frame, with the alert, is in the slot; the
\* same run has made a comparison before it.
C38_Witness ==
    /\ frame_alert
    /\ last_motion_time = now
    /\ mh_frame_count = 1
    /\ \E c \in Captures : cap_pc[c] = "sync"

\* C34: last_motion_time changes only in a handle_frame call that handles a pending
\* motion, so it is absent until the first one; every such call sets it to the
\* current time; once set it is never absent again and never decreases, across
\* handle_frame calls, capture restarts and recording sessions.
C34_LastMotionTimeSetAndMonotonic ==
    [][/\ last_motion_time' # last_motion_time
            => \E c \in Captures : HandleFrameStep(c) /\ motion_detected
       /\ \A c \in Captures :
            HandleFrameStep(c) /\ motion_detected => last_motion_time' = now
       /\ last_motion_time # None
            => last_motion_time' # None /\ last_motion_time' >= last_motion_time
      ]_vars

\* A motion was handled and opened a recording session; since then capture was
\* stopped and started again, time has passed and the new run has made a
\* handle_frame call: last_motion_time is as the first run left it.
C34_Witness ==
    /\ cap_pc[1] = "done"
    /\ cap_pc[2] = "sync"
    /\ last_motion_time # None
    /\ last_motion_time < now
    /\ \E t \in Tasks : InSession(t) /\ rec_frames[t] > 0

\* C35: the writer never exceeds the sample rate: in every state of a segment with
\* a frame written, frame_count <= floor((now - time of the first write) / interval)
\* + 1, with or without overruns.
C35_WriterWithinSampleRate ==
    (vr_frame_count > 0 /\ first_frame_time # None)
        => vr_frame_count <= ((now - first_frame_time) \div sampling_interval) + 1

\* The step that is one wait_for_next_sampling call.
SyncCallStep == last_call' # last_call

\* The latest call returned its previous tick plus a positive whole number of
\* intervals, and the caller's tick is on the grid of its first tick.
TicksOnTheGrid ==
    /\ CalledWithTick
          => /\ last_call.tick > last_call.start_time
             /\ (last_call.tick - last_call.start_time) % sampling_interval = 0
    /\ (previous_tick # None /\ grid_origin # None)
          => /\ previous_tick >= grid_origin
             /\ (previous_tick - grid_origin) % sampling_interval = 0

\* C36: a wait_for_next_sampling call made with a previous tick returns that tick
\* plus a positive whole number of intervals, so the caller's ticks are strictly
\* increasing and stay on the grid of its first tick; and a call changes neither
\* the sampling rate nor the sampling interval of the Synchronizer.
C36_TicksStayOnTheGrid ==
    /\ []TicksOnTheGrid
    /\ [][SyncCallStep => /\ sampling_rate' = sampling_rate
                          /\ sampling_interval' = sampling_interval]_vars

\* C36 witness: the caller is several intervals from its first tick, its latest
\* call having skipped ticks after an overrun that was no whole number of
\* intervals.
C36_Witness ==
    /\ CalledWithTick
    /\ sampling_interval > 1
    /\ grid_origin # None
    /\ last_call.start_time > grid_origin
    /\ Elapsed > sampling_interval
    /\ Elapsed % sampling_interval # 0
    /\ previous_tick = last_call.tick

\* Thread c is the one capture thread, in a run started after an earlier run was
\* stopped, and the run has made no comparison yet: it has no reference frame.
RestartedBeforeComparison(c) ==
    /\ cap_pc[c] = "loop"
    /\ \E d \in Captures \ {c} : cap_pc[d] = "done"
    /\ \A d \in Captures \ {c} : cap_pc[d] \in {"none", "done", "failed"}
    /\ reference_frame = NoFrame

\* C37: a capture run started after a stop handles no motion before one of its own
\* comparisons has scored at or above the threshold: a handle_frame call made
\* before the run's first comparison leaves last_motion_time as it is and spawns no
\* recording thread.
C37_NoMotionCarriedOverRestart ==
    [][\A c \in Captures :
          (HandleFrameStep(c) /\ RestartedBeforeComparison(c))
              => /\ last_motion_time' = last_motion_time
                 /\ Spawned = {}
      ]_vars

\* A recording thread that has ended, in whatever way.
Ended(t) == rec_pc[t] \in {"done", "failed", "crashed"}

\* C39: once recording threads have ended and none is left running, which is when
\* nothing but a new session could change the flag, recording_active is false: the
\* next handled motion with storage enabled can start a session.
C39_EndedTasksLeaveRecorderInactive ==
    ((\E t \in Tasks : Ended(t)) /\ (\A t \in Tasks : ~Running(t)))
        => ~recording_active

\* The step in which disable_video_storage, called on its own, turns storage off.
DisableStorageStep == storage_enabled /\ ~storage_enabled' /\ main_pc' = main_pc

\* C40: disabling video storage only keeps new sessions from starting. The call
\* changes neither termination flag, nor the motion state, the recorder or any
\* thread; while storage is disabled a recording thread still leaves its check for
\* stop_recording only when a stop condition holds, and a handled motion spawns
\* no thread.
C40_DisableOnlyPreventsNewSessions ==
    [][/\ DisableStorageStep
            => UNCHANGED <<mh_terminate, lf_terminate, top_terminate, motion_detected,
                           last_motion_time, mh_frame_count, reference_frame,
                           start_video_thread, recorder_vars, thread_vars>>
       /\ \A t \in Tasks :
            (~storage_enabled /\ rec_pc[t] = "check" /\ rec_pc'[t] # "check")
                => IF StopCondition THEN rec_pc'[t] = "stop" ELSE rec_pc'[t] = "write"
       /\ \A c \in Captures :
            (HandleFrameStep(c) /\ ~storage_enabled) => Spawned = {}
      ]_vars

\* C40 witness: storage was disabled after the session's thread was spawned, and
\* the session goes on: it has written frames and has just passed another check.
C40_Witness ==
    /\ ~storage_enabled
    /\ requests > 0
    /\ main_pc = "running"
    /\ ~mh_terminate
    /\ \E t \in Tasks :
          /\ rec_pc[t] = "write"
          /\ rec_frames[t] > 1
          /\ segment_started # None
          /\ segment_started < now

====
